---- MODULE Spec2Model ----
(***************************************************************************)
(* boredom2: a small imperative scripting language.                        *)
(*                                                                         *)
(* The model follows src/src/main.rs: a token stream is handed to          *)
(* ASTGenerator::generate_ast (src/src/astgen.rs), the flat instruction    *)
(* array it produces is handed to Interpreter::init, and                   *)
(* Interpreter::execute_one (src/src/interpreter.rs) is called until       *)
(* `halted` is set or the process panics.                                  *)
(*                                                                         *)
(* Conventions                                                             *)
(*  - indices (instruction pointer, store addresses, token index) are      *)
(*    0-based as in the source; At(s, i) reads the element at index i.     *)
(*  - a String is the sequence of its (ASCII) characters.                  *)
(*  - a panic ends the process: pc becomes "panic" and nothing else moves.  *)
(*  - arithmetic overflow is build dependent in Rust: with overflow        *)
(*    checks (debug profile) it panics, without them (release profile)     *)
(*    it wraps.  overflow_checks is chosen at Init and both are explored.  *)
(*  - u32 is scaled down to 0 .. U32Modulus-1 (TLC integers are 32 bit).   *)
(***************************************************************************)
EXTENDS Integers, Sequences, FiniteSets, TLC

VARIABLES
    tokens,                 \* ASTGenerator.tokens: the token stream (input)
    astgen,                 \* the ASTGenerator after generate_ast (parser state)
    pc,                     \* "parse" | "run" | "halted" | "panic" | "hang"
    overflow_checks,        \* build profile: TRUE = overflow panics, FALSE = wraps
    ast_tokens,             \* Interpreter.ast_tokens
    halted,                 \* Interpreter.halted
    inst_ptr,               \* Interpreter.inst_ptr
    memory_cells,           \* Interpreter.memory_cells
    variable_map,           \* Interpreter.variable_map
    mem_scope_start_stack,  \* Interpreter.mem_scope_start_stack
    loop_stack,             \* Interpreter.loop_stack
    else_flag,              \* Interpreter.else_flag
    return_stack,           \* Interpreter.return_stack: <<return address, scopes deep>>
    return_value,           \* Interpreter.return_value
    output,                 \* what print! has written to stdout, one entry per print
    last,                   \* observation: the step just taken (kind, index, pre-state)
    open_log,               \* observation: pre-state snapshots of entered blocks
    call_log,               \* observation: pre-state snapshots of active calls
    eval                    \* evaluator harness (SpecOp): operands, operator, result

vars == <<tokens, astgen, pc, overflow_checks, ast_tokens, halted, inst_ptr,
          memory_cells, variable_map, mem_scope_start_stack, loop_stack,
          else_flag, return_stack, return_value, output, last, open_log,
          call_log, eval>>

(***************************************************************************)
(* Bounds of the model.                                                    *)
(***************************************************************************)
\* stands for 2^32, the number of u32 values
U32Modulus == 16
\* largest integer literal used in the enumerated expression programs
MaxLit == 3
\* the return stack is not allowed to grow beyond this many frames
MaxReturnDepth == 3
\* the scope-start stack is not allowed to grow beyond this many entries
MaxScopes == 8

At(s, i) == s[i + 1]
Last(s) == s[Len(s)]
Front(s) == SubSeq(s, 1, Len(s) - 1)
Tail1(s) == SubSeq(s, 2, Len(s))

(***************************************************************************)
(* interpreter.rs: Type, WrappedType                                       *)
(***************************************************************************)
TInteger(n) == [tag |-> "Integer", i |-> n, s |-> <<>>, b |-> FALSE, a |-> <<>>]
TString(cs) == [tag |-> "String", i |-> 0, s |-> cs, b |-> FALSE, a |-> <<>>]
TBool(x) == [tag |-> "Bool", i |-> 0, s |-> <<>>, b |-> x, a |-> <<>>]
TArray(xs) == [tag |-> "Array", i |-> 0, s |-> <<>>, b |-> FALSE, a |-> xs]
TNull == [tag |-> "Null", i |-> 0, s |-> <<>>, b |-> FALSE, a |-> <<>>]

\* Option<usize>
NoAddr == [some |-> FALSE, at |-> 0]
SomeAddr(n) == [some |-> TRUE, at |-> n]

\* WrappedType::from / WrappedType::from_with_addr
from(value) == [value |-> value, addr |-> NoAddr]
from_with_addr(value, addr) == [value |-> value, addr |-> addr]

\* Option<Type> (return_value)
NoType == [some |-> FALSE, v |-> TNull]
SomeType(v) == [some |-> TRUE, v |-> v]

(***************************************************************************)
(* Results of operations that may panic and that may write to the store.   *)
(***************************************************************************)
Fatal(mem) == [ok |-> FALSE, w |-> from(TNull), mem |-> mem]
Done(w, mem) == [ok |-> TRUE, w |-> w, mem |-> mem]

\* u32::to_string
Digit(d) ==
    CASE d = 0 -> "0" [] d = 1 -> "1" [] d = 2 -> "2" [] d = 3 -> "3"
      [] d = 4 -> "4" [] d = 5 -> "5" [] d = 6 -> "6" [] d = 7 -> "7"
      [] d = 8 -> "8" [] OTHER -> "9"

RECURSIVE u32_to_string(_)
u32_to_string(n) ==
    IF n < 10 THEN <<Digit(n)>> ELSE u32_to_string(n \div 10) \o <<Digit(n % 10)>>

\* bool::to_string
bool_to_string(x) ==
    IF x THEN <<"t", "r", "u", "e">> ELSE <<"f", "a", "l", "s", "e">>

\* u32 + u32 and u32 - u32: panic with overflow checks, wrap without
u32_add(x, y, oc, mem) ==
    IF x + y >= U32Modulus
    THEN IF oc THEN Fatal(mem) ELSE Done(from(TInteger((x + y) % U32Modulus)), mem)
    ELSE Done(from(TInteger(x + y)), mem)

u32_sub(x, y, oc, mem) ==
    IF x < y
    THEN IF oc THEN Fatal(mem) ELSE Done(from(TInteger(x - y + U32Modulus)), mem)
    ELSE Done(from(TInteger(x - y)), mem)

Comparisons ==
    {"Equals", "NotEquals", "MoreThan", "LessThan", "MoreThanOrEquals", "LessThanOrEquals"}

Operators ==
    Comparisons \cup {"Add", "Sub", "ArrayAccess", "LenAccess", "PopAccess", "PopFrontAccess"}

\* bool ordering: false < true
BoolRank(x) == IF x THEN 1 ELSE 0

\* the six comparisons on two ranks
compare(x, y, operator) ==
    CASE operator = "Equals" -> x = y
      [] operator = "NotEquals" -> x # y
      [] operator = "MoreThan" -> x > y
      [] operator = "LessThan" -> x < y
      [] operator = "MoreThanOrEquals" -> x >= y
      [] OTHER -> x <= y

\* memory_cells[addr] = value; an index out of bounds (or addr None) panics
store_write(mem, addr, value, w) ==
    IF addr.some /\ addr.at < Len(mem)
    THEN Done(w, [mem EXCEPT ![addr.at + 1] = value])
    ELSE Fatal(mem)

\* a Bool left operand that coerces to 0/1 under Add instead of failing
operate_on_bool_coercing(first, second, operator, oc, mem) ==
    LET f == first.value
        g == second.value
    IN IF g.tag = "Bool" /\ operator \in Comparisons
       THEN Done(from(TBool(compare(BoolRank(f.b), BoolRank(g.b), operator))), mem)
       ELSE IF g.tag = "Integer" /\ operator = "Add"
       THEN Done(from(TInteger((BoolRank(f.b) + g.i) % U32Modulus)), mem)
       ELSE Fatal(mem)

\* interpreter.rs:152-170: the left operand is a Bool
operate_on_bool(first, second, operator, oc, mem) ==
    LET f == first.value
        g == second.value
    IN IF g.tag = "Bool" /\ operator \in Comparisons
       THEN Done(from(TBool(compare(BoolRank(f.b), BoolRank(g.b), operator))), mem)
       ELSE Fatal(mem)

\* operate_on_integer comparing an Integer with a Bool as the numbers 0 and 1
operate_on_integer_numeric(first, second, operator, oc, mem) ==
    LET f == first.value
        g == second.value
    IN
    CASE g.tag = "Integer" ->
           CASE operator = "Add" -> u32_add(f.i, g.i, oc, mem)
             [] operator = "Sub" -> u32_sub(f.i, g.i, oc, mem)
             [] operator \in Comparisons ->
                  Done(from(TBool(compare(f.i, g.i, operator))), mem)
             [] OTHER -> Fatal(mem)
      [] g.tag = "Bool" ->
           CASE operator = "Equals" -> Done(from(TBool(f.i = BoolRank(g.b))), mem)
             [] operator = "NotEquals" -> Done(from(TBool(f.i # BoolRank(g.b))), mem)
             [] OTHER -> Fatal(mem)
      [] OTHER -> Fatal(mem)

\* interpreter.rs:171-200: the left operand is an Integer
operate_on_integer(first, second, operator, oc, mem) ==
    LET f == first.value
        g == second.value
    IN
    CASE g.tag = "Integer" ->
           CASE operator = "Add" -> u32_add(f.i, g.i, oc, mem)
             [] operator = "Sub" -> u32_sub(f.i, g.i, oc, mem)
             [] operator \in Comparisons ->
                  Done(from(TBool(compare(f.i, g.i, operator))), mem)
             [] OTHER -> Fatal(mem)
      [] g.tag = "Bool" ->
           CASE operator = "Equals" -> Done(from(TBool((f.i = 0) # g.b)), mem)
             [] operator = "NotEquals" -> Done(from(TBool((f.i # 0) # g.b)), mem)
             [] OTHER -> Fatal(mem)
      [] OTHER -> Fatal(mem)

\* interpreter.rs:201-266: the left operand is a String
operate_on_string(first, second, operator, oc, mem) ==
    LET f == first.value
        g == second.value
    IN
    CASE g.tag = "Integer" ->
           CASE operator = "Add" ->
                  Done(from(TString(f.s \o u32_to_string(g.i))), mem)
             [] operator = "ArrayAccess" ->
                  IF g.i < Len(f.s)
                  THEN Done(from_with_addr(TString(<<At(f.s, g.i)>>), first.addr), mem)
                  ELSE Fatal(mem)
             [] OTHER -> Fatal(mem)
      [] g.tag = "Bool" ->
           CASE operator = "Add" ->
                  Done(from(TString(f.s \o bool_to_string(g.b))), mem)
             [] operator = "Equals" ->
                  Done(from(TBool((Len(f.s) = 0) # g.b)), mem)
             [] operator = "NotEquals" ->
                  Done(from(TBool((Len(f.s) # 0) # g.b)), mem)
             [] OTHER -> Fatal(mem)
      [] g.tag = "String" ->
           CASE operator = "Add" -> Done(from(TString(f.s \o g.s)), mem)
             [] operator = "Equals" -> Done(from(TBool(f.s = g.s)), mem)
             [] operator = "NotEquals" -> Done(from(TBool(f.s # g.s)), mem)
             [] operator \in Comparisons ->
                  Done(from(TBool(compare(Len(f.s), Len(g.s), operator))), mem)
             [] OTHER -> Fatal(mem)
      [] g.tag = "Null" ->
           CASE operator = "LenAccess" -> Done(from(TInteger(Len(f.s))), mem)
             [] operator = "PopAccess" ->
                  IF Len(f.s) = 0 THEN Fatal(mem)
                  ELSE store_write(mem, first.addr, TString(Front(f.s)),
                                   from_with_addr(TString(<<Last(f.s)>>), first.addr))
             [] operator = "PopFrontAccess" ->
                  IF Len(f.s) = 0 THEN Fatal(mem)
                  ELSE store_write(mem, first.addr, TString(Tail1(f.s)),
                                   from_with_addr(TString(<<f.s[1]>>), first.addr))
             [] OTHER -> Fatal(mem)
      [] OTHER -> Fatal(mem)

\* operate_on_array whose index access yields Null past the last element
operate_on_array_unchecked(first, second, operator, oc, mem) ==
    LET f == first.value
        g == second.value
    IN
    CASE g.tag = "Integer" ->
           CASE operator = "Add" -> Done(from(TArray(f.a \o <<g>>)), mem)
             [] operator = "ArrayAccess" ->
                  IF g.i < Len(f.a)
                  THEN Done(from_with_addr(At(f.a, g.i), first.addr), mem)
                  ELSE Done(from_with_addr(TNull, first.addr), mem)
             [] OTHER -> Fatal(mem)
      [] g.tag = "Bool" ->
           IF operator = "Add" THEN Done(from(TArray(f.a \o <<g>>)), mem)
           ELSE Fatal(mem)
      [] g.tag = "String" ->
           IF operator = "Add" THEN Done(from(TArray(f.a \o <<g>>)), mem)
           ELSE Fatal(mem)
      [] g.tag = "Null" ->
           CASE operator = "LenAccess" -> Done(from(TInteger(Len(f.a))), mem)
             [] operator = "PopAccess" ->
                  IF Len(f.a) = 0 THEN Fatal(mem)
                  ELSE store_write(mem, first.addr, TArray(Front(f.a)),
                                   from_with_addr(Last(f.a), first.addr))
             [] operator = "PopFrontAccess" ->
                  IF Len(f.a) = 0 THEN Fatal(mem)
                  ELSE store_write(mem, first.addr, TArray(Tail1(f.a)),
                                   from_with_addr(f.a[1], first.addr))
             [] OTHER -> Fatal(mem)
      [] OTHER -> Fatal(mem)

\* Add as a push onto the array held in the variable's own cell
push_in_place(first, g, mem) ==
    IF first.addr.some
    THEN store_write(mem, first.addr, TArray(first.value.a \o <<g>>),
                     from_with_addr(TArray(first.value.a \o <<g>>), first.addr))
    ELSE Done(from(TArray(first.value.a \o <<g>>)), mem)

\* operate_on_array whose Add pushes in place
operate_on_array_pushing(first, second, operator, oc, mem) ==
    LET f == first.value
        g == second.value
    IN
    CASE g.tag = "Integer" ->
           CASE operator = "Add" -> push_in_place(first, g, mem)
             [] operator = "ArrayAccess" ->
                  IF g.i < Len(f.a)
                  THEN Done(from_with_addr(At(f.a, g.i), first.addr), mem)
                  ELSE Fatal(mem)
             [] OTHER -> Fatal(mem)
      [] g.tag = "Bool" ->
           IF operator = "Add" THEN push_in_place(first, g, mem)
           ELSE Fatal(mem)
      [] g.tag = "String" ->
           IF operator = "Add" THEN push_in_place(first, g, mem)
           ELSE Fatal(mem)
      [] g.tag = "Null" ->
           CASE operator = "LenAccess" -> Done(from(TInteger(Len(f.a))), mem)
             [] operator = "PopAccess" ->
                  IF Len(f.a) = 0 THEN Fatal(mem)
                  ELSE store_write(mem, first.addr, TArray(Front(f.a)),
                                   from_with_addr(Last(f.a), first.addr))
             [] operator = "PopFrontAccess" ->
                  IF Len(f.a) = 0 THEN Fatal(mem)
                  ELSE store_write(mem, first.addr, TArray(Tail1(f.a)),
                                   from_with_addr(f.a[1], first.addr))
             [] OTHER -> Fatal(mem)
      [] OTHER -> Fatal(mem)

\* interpreter.rs:267-323: the left operand is an Array
operate_on_array(first, second, operator, oc, mem) ==
    LET f == first.value
        g == second.value
    IN
    CASE g.tag = "Integer" ->
           CASE operator = "Add" -> Done(from(TArray(f.a \o <<g>>)), mem)
             [] operator = "ArrayAccess" ->
                  IF g.i < Len(f.a)
                  THEN Done(from_with_addr(At(f.a, g.i), first.addr), mem)
                  ELSE Fatal(mem)
             [] OTHER -> Fatal(mem)
      [] g.tag = "Bool" ->
           IF operator = "Add" THEN Done(from(TArray(f.a \o <<g>>)), mem)
           ELSE Fatal(mem)
      [] g.tag = "String" ->
           IF operator = "Add" THEN Done(from(TArray(f.a \o <<g>>)), mem)
           ELSE Fatal(mem)
      [] g.tag = "Null" ->
           CASE operator = "LenAccess" -> Done(from(TInteger(Len(f.a))), mem)
             [] operator = "PopAccess" ->
                  IF Len(f.a) = 0 THEN Fatal(mem)
                  ELSE store_write(mem, first.addr, TArray(Front(f.a)),
                                   from_with_addr(Last(f.a), first.addr))
             [] operator = "PopFrontAccess" ->
                  IF Len(f.a) = 0 THEN Fatal(mem)
                  ELSE store_write(mem, first.addr, TArray(Tail1(f.a)),
                                   from_with_addr(f.a[1], first.addr))
             [] OTHER -> Fatal(mem)
      [] OTHER -> Fatal(mem)

\* interpreter.rs:150-328
operate_on_types(first, second, operator, oc, mem) ==
    CASE first.value.tag = "Bool" -> operate_on_bool(first, second, operator, oc, mem)
      [] first.value.tag = "Integer" -> operate_on_integer(first, second, operator, oc, mem)
      [] first.value.tag = "String" -> operate_on_string(first, second, operator, oc, mem)
      [] first.value.tag = "Array" -> operate_on_array(first, second, operator, oc, mem)
      [] OTHER -> Fatal(mem)

(***************************************************************************)
(* astgen.rs: Value, Statement, ASTToken                                   *)
(***************************************************************************)
MkValue(kind, i, s, b, name, values, operators) ==
    [kind |-> kind, i |-> i, s |-> s, b |-> b, name |-> name,
     values |-> values, operators |-> operators]

IntegerLiteral(n) == MkValue("IntegerLiteral", n, <<>>, FALSE, "", <<>>, <<>>)
StringLiteral(cs) == MkValue("StringLiteral", 0, cs, FALSE, "", <<>>, <<>>)
BoolLiteral(x) == MkValue("BoolLiteral", 0, <<>>, x, "", <<>>, <<>>)
Variable(name) == MkValue("Variable", 0, <<>>, FALSE, name, <<>>, <<>>)
Array(values) == MkValue("Array", 0, <<>>, FALSE, "", values, <<>>)
Return == MkValue("Return", 0, <<>>, FALSE, "", <<>>, <<>>)
Null == MkValue("Null", 0, <<>>, FALSE, "", <<>>, <<>>)
Expression(values, operators) ==
    MkValue("Expression", 0, <<>>, FALSE, "", values, operators)

\* Option<usize>, Option<Value>
NoIdx == [some |-> FALSE, at |-> 0]
SomeIdx(n) == [some |-> TRUE, at |-> n]
NoValue == [some |-> FALSE, v |-> Null]
SomeValue(v) == [some |-> TRUE, v |-> v]

\* ASTToken; `op` is the operator of If/While, `target` the index carried by
\* Jump/SubroutineCall, `label` the name carried by Label
MkAST(t_type, op, target, label, arg1, arg2, body_idx) ==
    [t_type |-> t_type, op |-> op, target |-> target, label |-> label,
     arg1 |-> arg1, arg2 |-> arg2, body_idx |-> body_idx, body_extent |-> NoIdx,
     else_body_idx |-> NoIdx]

\* ASTToken::empty, ::of_type, ::with_args, ::with_args_and_body, ::new_scope
empty == MkAST("Empty", "", NoIdx, "", NoValue, NoValue, NoIdx)
of_type(t_type) == MkAST(t_type, "", NoIdx, "", NoValue, NoValue, NoIdx)
of_type_target(t_type, target) == MkAST(t_type, "", target, "", NoValue, NoValue, NoIdx)
of_type_label(label) == MkAST("Label", "", NoIdx, label, NoValue, NoValue, NoIdx)
with_args(t_type, arg1, arg2) == MkAST(t_type, "", NoIdx, "", SomeValue(arg1), arg2, NoIdx)
with_args_and_body(t_type, op, arg1, arg2, body_idx) ==
    MkAST(t_type, op, NoIdx, "", SomeValue(arg1), arg2, SomeIdx(body_idx))
new_scope(body_idx) == MkAST("Block", "", NoIdx, "", NoValue, NoValue, SomeIdx(body_idx))

(***************************************************************************)
(* interpreter.rs: reading values                                          *)
(***************************************************************************)
\* interpreter.rs:86-95
resolve_variable_by_name(name, vm, mem) ==
    IF name \notin DOMAIN vm THEN Fatal(mem)
    ELSE IF vm[name] >= Len(mem) THEN Fatal(mem)
    ELSE Done(from_with_addr(At(mem, vm[name]), SomeAddr(vm[name])), mem)

\* interpreter.rs:96-140.  rv is return_value, oc is overflow_checks; the
\* store is threaded through because the pop operators write to it.
RECURSIVE resolve_argument_value(_, _, _, _, _)
RECURSIVE resolve_expression(_, _, _, _, _, _, _, _)
RECURSIVE resolve_array(_, _, _, _, _, _, _)
RECURSIVE resolve_expression_swapped(_, _, _, _, _, _, _, _)

resolve_argument_value(argument, vm, rv, oc, mem) ==
    CASE argument.kind = "Variable" -> resolve_variable_by_name(argument.name, vm, mem)
      [] argument.kind = "IntegerLiteral" -> Done(from(TInteger(argument.i)), mem)
      [] argument.kind = "StringLiteral" -> Done(from(TString(argument.s)), mem)
      [] argument.kind = "BoolLiteral" -> Done(from(TBool(argument.b)), mem)
      [] argument.kind = "Expression" ->
           IF Len(argument.values) = 0 THEN Fatal(mem)
           ELSE LET first == resolve_argument_value(argument.values[1], vm, rv, oc, mem)
                IN IF ~first.ok THEN first
                   ELSE resolve_expression(argument.values, argument.operators, 0,
                                           first.w, vm, rv, oc, first.mem)
      [] argument.kind = "Array" ->
           resolve_array(argument.values, 1, <<>>, vm, rv, oc, mem)
      [] argument.kind = "Return" ->
           IF rv.some THEN Done(from(rv.v), mem) ELSE Fatal(mem)
      [] OTHER -> Done(from(TNull), mem)

\* a fold that hands each new operand to the evaluator as the left operand
resolve_expression_swapped(values, operators, index, accumulator, vm, rv, oc, mem) ==
    IF index >= Len(operators) THEN Done(accumulator, mem)
    ELSE IF index + 1 >= Len(values) THEN Fatal(mem)
    ELSE LET second_arg == resolve_argument_value(At(values, index + 1), vm, rv, oc, mem)
         IN IF ~second_arg.ok THEN second_arg
            ELSE LET r == operate_on_types(second_arg.w, accumulator,
                                           At(operators, index), oc, second_arg.mem)
                 IN IF ~r.ok THEN r
                    ELSE resolve_expression_swapped(values, operators, index + 1, r.w,
                                                    vm, rv, oc, r.mem)

\* the `for operator in operators` loop of the Expression arm
resolve_expression(values, operators, index, accumulator, vm, rv, oc, mem) ==
    IF index >= Len(operators) THEN Done(accumulator, mem)
    ELSE IF index + 1 >= Len(values) THEN Fatal(mem)
    ELSE LET second_arg == resolve_argument_value(At(values, index + 1), vm, rv, oc, mem)
         IN IF ~second_arg.ok THEN second_arg
            ELSE LET r == operate_on_types(accumulator, second_arg.w,
                                           At(operators, index), oc, second_arg.mem)
                 IN IF ~r.ok THEN r
                    ELSE resolve_expression(values, operators, index + 1, r.w,
                                            vm, rv, oc, r.mem)

\* the `for value in values` loop of the Array arm
resolve_array(values, k, accumulator, vm, rv, oc, mem) ==
    IF k > Len(values) THEN Done(from(TArray(accumulator)), mem)
    ELSE LET r == resolve_argument_value(values[k], vm, rv, oc, mem)
         IN IF ~r.ok THEN r
            ELSE resolve_array(values, k + 1, Append(accumulator, r.w.value),
                               vm, rv, oc, r.mem)

(***************************************************************************)
(* interpreter.rs: the store                                               *)
(***************************************************************************)
\* the part of the interpreter that the scope operations work on
Store(mem, vm, scopes) == [ok |-> TRUE, mem |-> mem, vm |-> vm, scopes |-> scopes]
StoreFatal(mem, vm, scopes) == [ok |-> FALSE, mem |-> mem, vm |-> vm, scopes |-> scopes]

Bind(vm, name, addr) ==
    [n \in (DOMAIN vm) \cup {name} |-> IF n = name THEN addr ELSE vm[n]]

\* interpreter.rs:70-76
create_new_variable(name, value, mem, vm, scopes) ==
    IF name \in DOMAIN vm THEN StoreFatal(mem, vm, scopes)
    ELSE Store(Append(mem, value), Bind(vm, name, Len(mem)), scopes)

\* a set that always appends a fresh cell and rebinds the name to it
set_or_create_new_variable_appending(name, value, mem, vm, scopes) ==
    Store(Append(mem, value), Bind(vm, name, Len(mem)), scopes)

\* interpreter.rs:77-85
set_or_create_new_variable(name, value, mem, vm, scopes) ==
    IF name \in DOMAIN vm
    THEN IF vm[name] < Len(mem)
         THEN Store([mem EXCEPT ![vm[name] + 1] = value], vm, scopes)
         ELSE StoreFatal(mem, vm, scopes)
    ELSE create_new_variable(name, value, mem, vm, scopes)

\* variable_map.retain(|_, v| *v <= bound)
retain(vm, bound) ==
    LET keep == {n \in DOMAIN vm : vm[n] <= bound} IN [n \in keep |-> vm[n]]

\* interpreter.rs:141-149.  Nothing happens on an empty store, not even the
\* pop.  A popped scope start of 0 makes `pop() - 1` overflow: a panic with
\* overflow checks; without them it wraps to usize::MAX, retain keeps every
\* name, and `invalid_scope_start + 1` wraps back to 0, so truncate(0).
invalidate_current_scope(mem, vm, scopes, oc) ==
    IF Len(mem) > 0
    THEN IF Len(scopes) = 0 THEN StoreFatal(mem, vm, scopes)
         ELSE LET start == Last(scopes) IN
              IF start = 0
              THEN IF oc THEN StoreFatal(mem, vm, scopes)
                   ELSE Store(<<>>, vm, Front(scopes))
              ELSE Store(SubSeq(mem, 1, IF start < Len(mem) THEN start ELSE Len(mem)),
                         retain(vm, start - 1), Front(scopes))
    ELSE Store(mem, vm, scopes)

\* n successive calls of invalidate_current_scope
RECURSIVE invalidate_scopes(_, _, _, _, _)
invalidate_scopes(n, mem, vm, scopes, oc) ==
    IF n = 0 THEN Store(mem, vm, scopes)
    ELSE LET r == invalidate_current_scope(mem, vm, scopes, oc)
         IN IF ~r.ok THEN r ELSE invalidate_scopes(n - 1, r.mem, r.vm, r.scopes, oc)

(***************************************************************************)
(* tokenizer.rs: the token stream consumed by the parser.  Only the token   *)
(* (not its src_line) is modelled.                                         *)
(***************************************************************************)
MkToken(token, i, s, name) == [token |-> token, i |-> i, s |-> s, name |-> name]
Tok(token) == MkToken(token, 0, <<>>, "")
TokInt(n) == MkToken("IntegerLiteral", n, <<>>, "")
TokStr(cs) == MkToken("StringLiteral", 0, cs, "")
TokVar(name) == MkToken("Variable", 0, <<>>, name)

(***************************************************************************)
(* astgen.rs: expression parsing                                           *)
(***************************************************************************)
ParseFatal == [ok |-> FALSE, v |-> Null]
Parsed(v) == [ok |-> TRUE, v |-> v]

\* astgen.rs:142-151
resolve_value_from_token(token) ==
    CASE token.token = "IntegerLiteral" -> Parsed(IntegerLiteral(token.i))
      [] token.token = "StringLiteral" -> Parsed(StringLiteral(token.s))
      [] token.token = "BoolTrue" -> Parsed(BoolLiteral(TRUE))
      [] token.token = "BoolFalse" -> Parsed(BoolLiteral(FALSE))
      [] token.token = "Variable" -> Parsed(Variable(token.name))
      [] OTHER -> ParseFatal

\* astgen.rs:152-161
resolve_variable_write_like_token(token) ==
    IF token.token = "Variable" THEN Parsed(Variable(token.name)) ELSE ParseFatal

\* astgen.rs:172-182
resolve_comparison_like_token(token) ==
    IF token.token \in Comparisons THEN token.token ELSE "panic"

\* astgen.rs:349-357
token_is_comparison_like(token) ==
    token.token \in {"Equals", "NotEquals", "MoreThan", "LessThan"}

\* astgen.rs:358-364
token_is_assign_op_like(token) == token.token \in {"PlusEquals", "MinusEquals"}

\* astgen.rs:365-370
token_is_assign_like(token) == token.token = "Assign"

\* astgen.rs:371-376
token_is_scope_like(token) == token.token = "ScopeOpen"

\* astgen.rs:377-382
token_is_line_end(token) == token.token = "LineEnd"

\* the two `while tokens[token_idx].token != ParensClose || parens_deep > 0`
\* loops (astgen.rs:229-238, 311-320); k is token_idx, 0-based.  The result
\* is the index of the closing parenthesis and the tokens collected.
RECURSIVE gather_parens(_, _, _, _)
gather_parens(toks, k, parens_deep, parens_tokens) ==
    IF k >= Len(toks) THEN [ok |-> FALSE, k |-> k, toks |-> parens_tokens]
    ELSE LET t == At(toks, k) IN
         IF t.token # "ParensClose" \/ parens_deep > 0
         THEN gather_parens(toks, k + 1,
                            IF t.token = "ParensOpen" THEN parens_deep + 1
                            ELSE IF t.token = "ParensClose" THEN parens_deep - 1
                            ELSE parens_deep,
                            Append(parens_tokens, t))
         ELSE [ok |-> TRUE, k |-> k, toks |-> parens_tokens]

\* the `while tokens[token_idx].token != Token::ArrayAccess` loop (astgen.rs:275-278)
RECURSIVE gather_access(_, _, _)
gather_access(toks, k, access_tokens) ==
    IF k >= Len(toks) THEN [ok |-> FALSE, k |-> k, toks |-> access_tokens]
    ELSE IF At(toks, k).token # "ArrayAccess"
         THEN gather_access(toks, k + 1, Append(access_tokens, At(toks, k)))
         ELSE [ok |-> TRUE, k |-> k, toks |-> access_tokens]

RECURSIVE resolve_any_value(_)
RECURSIVE resolve_any_value_loop(_, _, _, _)
RECURSIVE resolve_array_literal(_, _, _)

\* astgen.rs:195-338
resolve_any_value(toks) ==
    IF Len(toks) = 1 THEN resolve_value_from_token(toks[1])
    ELSE IF Len(toks) > 1 THEN resolve_any_value_loop(toks, 0, <<>>, <<>>)
    ELSE ParseFatal

\* the `while tokens[token_idx].token != Token::ArrayClose` loop
\* (astgen.rs:210-248); the result is the index of the ArrayClose
resolve_array_literal(toks, k, array_scratch) ==
    IF k >= Len(toks) THEN [ok |-> FALSE, k |-> k, scratch |-> array_scratch]
    ELSE LET this_token == At(toks, k) IN
         IF this_token.token = "ArrayClose"
         THEN [ok |-> TRUE, k |-> k, scratch |-> array_scratch]
         ELSE IF \/ token_is_assign_like(this_token)
                 \/ token_is_assign_op_like(this_token)
                 \/ token_is_comparison_like(this_token)
                 \/ token_is_line_end(this_token)
                 \/ token_is_scope_like(this_token)
         THEN [ok |-> FALSE, k |-> k, scratch |-> array_scratch]
         ELSE IF this_token.token = "ParensOpen"
         THEN LET p == gather_parens(toks, k + 1, 0, <<>>)
                  v == resolve_any_value(p.toks)
              IN IF ~p.ok \/ ~v.ok
                 THEN [ok |-> FALSE, k |-> k, scratch |-> array_scratch]
                 ELSE resolve_array_literal(toks, p.k + 1, Append(array_scratch, v.v))
         ELSE LET v == resolve_value_from_token(this_token)
              IN IF ~v.ok THEN [ok |-> FALSE, k |-> k, scratch |-> array_scratch]
                 ELSE resolve_array_literal(toks, k + 1, Append(array_scratch, v.v))

\* the `while token_idx < tokens.len()` loop (astgen.rs:205-329)
resolve_any_value_loop(toks, token_idx, value_tokens, operator_tokens) ==
    IF token_idx >= Len(toks) THEN Parsed(Expression(value_tokens, operator_tokens))
    ELSE LET this_token == At(toks, token_idx) IN
    CASE this_token.token = "ArrayOpen" ->
           LET r == resolve_array_literal(toks, token_idx + 1, <<>>)
           IN IF ~r.ok THEN ParseFatal
              ELSE resolve_any_value_loop(toks, r.k + 1,
                                          Append(value_tokens, Array(r.scratch)),
                                          operator_tokens)
      [] token_is_comparison_like(this_token) ->
           resolve_any_value_loop(toks, token_idx + 1, value_tokens,
               Append(operator_tokens, resolve_comparison_like_token(this_token)))
      [] this_token.token \in {"IntegerLiteral", "StringLiteral", "BoolTrue",
                               "BoolFalse", "Variable"} ->
           resolve_any_value_loop(toks, token_idx + 1,
               Append(value_tokens, resolve_value_from_token(this_token).v),
               operator_tokens)
      [] this_token.token = "Plus" ->
           resolve_any_value_loop(toks, token_idx + 1, value_tokens,
                                  Append(operator_tokens, "Add"))
      [] this_token.token = "Minus" ->
           resolve_any_value_loop(toks, token_idx + 1, value_tokens,
                                  Append(operator_tokens, "Sub"))
      [] this_token.token = "ArrayAccess" ->
           IF Len(value_tokens) = 0 THEN ParseFatal
           ELSE LET g == gather_access(toks, token_idx + 1, <<>>)
                    v == resolve_any_value(g.toks)
                IN IF ~g.ok \/ ~v.ok THEN ParseFatal
                   ELSE resolve_any_value_loop(toks, g.k + 1,
                            Append(Front(value_tokens),
                                   Expression(<<Last(value_tokens), v.v>>, <<"ArrayAccess">>)),
                            operator_tokens)
      [] this_token.token = "LenAccess" ->
           IF Len(value_tokens) = 0 THEN ParseFatal
           ELSE resolve_any_value_loop(toks, token_idx + 1,
                    Append(Front(value_tokens),
                           Expression(<<Last(value_tokens), Null>>, <<"LenAccess">>)),
                    operator_tokens)
      [] this_token.token = "ParensOpen" ->
           LET p == gather_parens(toks, token_idx + 1, 0, <<>>)
               v == resolve_any_value(p.toks)
           IN IF ~p.ok \/ ~v.ok THEN ParseFatal
              ELSE resolve_any_value_loop(toks, p.k + 1, Append(value_tokens, v.v),
                                          operator_tokens)
      [] OTHER -> ParseFatal

\* astgen.rs:339-348
unpack_expression(expression) ==
    IF expression.kind = "Expression"
    THEN [values |-> expression.values, operators |-> expression.operators]
    ELSE [values |-> <<expression>>, operators |-> <<>>]

(***************************************************************************)
(* astgen.rs: ASTGenerator                                                 *)
(***************************************************************************)
EmptyMap == [n \in {} |-> 0]

\* astgen.rs:113-124
ASTGenerator_init ==
    [ok |-> TRUE, current_token_idx |-> 0, generated_ast |-> <<>>,
     scope_open_idxs |-> <<>>, jump_table |-> EmptyMap, jumps |-> EmptyMap,
     subroutine_table |-> EmptyMap, subroutine_calls |-> EmptyMap]

Abort(g) == [g EXCEPT !.ok = FALSE]

\* astgen.rs:129-131
advance_token(g) == [g EXCEPT !.current_token_idx = @ + 1]

\* astgen.rs:135-141 followed by unwrap(): the token after the current one
HasNext(g, toks) == g.current_token_idx + 1 < Len(toks)
peek_next_token(g, toks) == At(toks, g.current_token_idx + 1)
NextIs(g, toks, token) == HasNext(g, toks) /\ peek_next_token(g, toks).token = token

\* astgen.rs:183-194; the result carries the advanced generator
RECURSIVE advance_and_gather_tokens_for_value(_, _, _)
advance_and_gather_tokens_for_value(g, toks, gathered) ==
    IF ~HasNext(g, toks) THEN [g |-> Abort(g), toks |-> gathered]
    ELSE IF /\ ~token_is_scope_like(peek_next_token(g, toks))
            /\ ~token_is_line_end(peek_next_token(g, toks))
         THEN advance_and_gather_tokens_for_value(advance_token(g), toks,
                  Append(gathered, peek_next_token(g, toks)))
         ELSE [g |-> g, toks |-> gathered]

\* astgen.rs:398-400 (also insert_root_ast_scope, astgen.rs:383-385)
insert_ast_token_at_end(g, new_token) ==
    [g EXCEPT !.generated_ast = Append(@, new_token)]

\* astgen.rs:386-397
insert_new_empty_ast_scope(g) ==
    [g EXCEPT !.generated_ast = Append(@, new_scope(Len(g.generated_ast) + 1)),
              !.scope_open_idxs = Append(@, Len(g.generated_ast))]

\* entry(name).or_insert_with(Vec::new).push(idx)
PushEntry(m, name, idx) ==
    [n \in (DOMAIN m) \cup {name} |->
        IF n = name THEN (IF name \in DOMAIN m THEN Append(m[name], idx) ELSE <<idx>>)
        ELSE m[n]]

\* insert_label recording the index after the Label
insert_label_after(g, label_name) ==
    [g EXCEPT !.generated_ast = Append(@, of_type_label(label_name)),
              !.jump_table = Bind(@, label_name, Len(g.generated_ast) + 1)]

\* astgen.rs:401-407
insert_label(g, label_name) ==
    [g EXCEPT !.generated_ast = Append(@, of_type_label(label_name)),
              !.jump_table = Bind(@, label_name, Len(g.generated_ast))]

\* astgen.rs:408-420
insert_dummy_jump(g, jump_name) ==
    [g EXCEPT !.generated_ast = Append(@, of_type_target("Jump", NoIdx)),
              !.jumps = PushEntry(@, jump_name, Len(g.generated_ast))]

\* insert_subroutine recording the index of the SubroutineDefine itself
insert_subroutine_at_define(g, subroutine_name) ==
    [g EXCEPT !.generated_ast = Append(@, of_type("SubroutineDefine")),
              !.subroutine_table = Bind(@, subroutine_name, Len(g.generated_ast))]

\* astgen.rs:421-428
insert_subroutine(g, subroutine_name) ==
    [g EXCEPT !.generated_ast = Append(@, of_type("SubroutineDefine")),
              !.subroutine_table = Bind(@, subroutine_name, Len(g.generated_ast) + 1)]

\* astgen.rs:429-441
insert_subroutine_call(g, subroutine_name) ==
    [g EXCEPT !.generated_ast = Append(@, of_type_target("SubroutineCall", NoIdx)),
              !.subroutine_calls = PushEntry(@, subroutine_name, Len(g.generated_ast))]

\* the argument built from a gathered token run by the Alloc, Set, Print and
\* SubroutineReturn arms: the lone value, or the whole expression
\* (astgen.rs:538-554, 658-675, 693-710, 762-779)
statement_argument(toks) ==
    LET value_token == resolve_any_value(toks)
        u == unpack_expression(value_token.v)
    IN IF ~value_token.ok THEN ParseFatal
       ELSE IF Len(u.operators) = 0
            THEN IF Len(u.values) = 0 THEN ParseFatal ELSE Parsed(u.values[1])
            ELSE Parsed(Expression(u.values, u.operators))

\* assert_eq!(self.peek_next_token().unwrap().token, Token::LineEnd)
expect_line_end(g, toks) == IF g.ok /\ NextIs(g, toks, "LineEnd") THEN g ELSE Abort(g)

\* a ScopeClose arm that never adds a return
parse_ScopeClose_plain(g) ==
    IF Len(g.scope_open_idxs) = 0 \/ Last(g.scope_open_idxs) < 1 THEN Abort(g)
    ELSE insert_ast_token_at_end(
             [g EXCEPT !.scope_open_idxs = Front(@),
                       !.generated_ast[Last(g.scope_open_idxs) + 1].body_extent =
                           SomeIdx(Len(g.generated_ast) - Last(g.scope_open_idxs))],
             of_type("BlockEnd"))

\* astgen.rs:452-471
parse_ScopeClose(g) ==
    IF Len(g.scope_open_idxs) = 0 THEN Abort(g)
    ELSE LET closing_scope_idx == Last(g.scope_open_idxs)
             popped == [g EXCEPT !.scope_open_idxs = Front(@)]
             closes_sub == /\ closing_scope_idx >= 1
                           /\ At(g.generated_ast, closing_scope_idx - 1).t_type
                                = "SubroutineDefine"
             with_ret == IF closes_sub /\ Last(g.generated_ast).t_type # "SubroutineReturn"
                         THEN insert_ast_token_at_end(popped,
                                  with_args("SubroutineReturn", BoolLiteral(FALSE), NoValue))
                         ELSE popped
             extent == Len(with_ret.generated_ast) - closing_scope_idx
         IN IF closing_scope_idx < 1 THEN Abort(g)
            ELSE insert_ast_token_at_end(
                     [with_ret EXCEPT !.generated_ast[closing_scope_idx + 1].body_extent =
                                          SomeIdx(extent)],
                     of_type("BlockEnd"))

\* astgen.rs:472-475
parse_EOF(g) ==
    insert_ast_token_at_end(
        [g EXCEPT !.scope_open_idxs = IF Len(@) = 0 THEN @ ELSE Front(@)],
        of_type("EOF"))

\* astgen.rs:476-485 (Label) and astgen.rs:486-496 (Jump)
parse_Label(g, toks) ==
    IF ~HasNext(g, toks) \/ peek_next_token(g, toks).token # "Variable" THEN Abort(g)
    ELSE expect_line_end(insert_label(advance_token(g), peek_next_token(g, toks).name), toks)

parse_Jump(g, toks) ==
    IF ~HasNext(g, toks) \/ peek_next_token(g, toks).token # "Variable" THEN Abort(g)
    ELSE expect_line_end(
             insert_dummy_jump(advance_token(g), peek_next_token(g, toks).name), toks)

\* astgen.rs:497-532
parse_SubroutineCall(g, toks) ==
    IF ~HasNext(g, toks) \/ peek_next_token(g, toks).token # "Variable" THEN Abort(g)
    ELSE LET subroutine_name == peek_next_token(g, toks).name
             g1 == advance_token(g)
         IN IF ~HasNext(g1, toks) THEN Abort(g)
            ELSE IF peek_next_token(g1, toks).token = "LineEnd"
            THEN expect_line_end(insert_subroutine_call(g1, subroutine_name), toks)
            ELSE IF peek_next_token(g1, toks).token # "SubroutineDirect" THEN Abort(g)
            ELSE LET g2 == insert_subroutine_call(advance_token(g1), subroutine_name)
                 IN IF ~HasNext(g2, toks) THEN Abort(g)
                    ELSE LET variable_expression ==
                                 resolve_variable_write_like_token(peek_next_token(g2, toks))
                         IN IF ~variable_expression.ok THEN Abort(g)
                            ELSE expect_line_end(
                                     insert_ast_token_at_end(advance_token(g2),
                                         with_args("Set", variable_expression.v,
                                                   SomeValue(Return))),
                                     toks)

\* astgen.rs:533-567
parse_SubroutineReturn(g, toks) ==
    IF ~HasNext(g, toks) THEN Abort(g)
    ELSE IF peek_next_token(g, toks).token # "LineEnd"
    THEN LET r == advance_and_gather_tokens_for_value(g, toks, <<>>)
             a == statement_argument(r.toks)
         IN IF ~r.g.ok \/ ~a.ok THEN Abort(g)
            ELSE expect_line_end(
                     insert_ast_token_at_end(r.g, with_args("SubroutineReturn", a.v, NoValue)),
                     toks)
    ELSE expect_line_end(
             insert_ast_token_at_end(g,
                 with_args("SubroutineReturn", BoolLiteral(FALSE), NoValue)),
             toks)

\* astgen.rs:568-579
parse_SubroutineDefine(g, toks) ==
    IF ~HasNext(g, toks) \/ peek_next_token(g, toks).token # "Variable" THEN Abort(g)
    ELSE LET g1 == insert_subroutine(advance_token(g), peek_next_token(g, toks).name)
         IN IF ~NextIs(g1, toks, "ScopeOpen") THEN Abort(g)
            ELSE advance_token(insert_new_empty_ast_scope(g1))

\* parse_condition whose operator-less form compares with BoolLiteral(false)
parse_condition_implicit_false(g, toks, t_type) ==
    LET r == advance_and_gather_tokens_for_value(g, toks, <<>>)
        value_token == resolve_any_value(r.toks)
        u == unpack_expression(value_token.v)
        body_idx == Len(g.generated_ast) + 1
    IN IF ~r.g.ok \/ ~value_token.ok THEN Abort(g)
       ELSE IF Len(u.values) = 0 THEN Abort(g)
       ELSE IF Len(u.operators) > 0 /\ Len(u.values) < 2 THEN Abort(g)
       ELSE LET new_token ==
                    IF Len(u.operators) = 0
                    THEN with_args_and_body(t_type, "Equals", u.values[1],
                                            SomeValue(BoolLiteral(FALSE)), body_idx)
                    ELSE with_args_and_body(t_type, u.operators[1], u.values[1],
                                            SomeValue(u.values[2]), body_idx)
                g1 == insert_ast_token_at_end(r.g, new_token)
            IN IF ~NextIs(g1, toks, "ScopeOpen") THEN Abort(g)
               ELSE advance_token(insert_new_empty_ast_scope(g1))

\* astgen.rs:580-612 (If) and astgen.rs:613-645 (While)
parse_condition(g, toks, t_type) ==
    LET r == advance_and_gather_tokens_for_value(g, toks, <<>>)
        value_token == resolve_any_value(r.toks)
        u == unpack_expression(value_token.v)
        body_idx == Len(g.generated_ast) + 1
    IN IF ~r.g.ok \/ ~value_token.ok THEN Abort(g)
       ELSE IF Len(u.values) = 0 THEN Abort(g)
       ELSE IF Len(u.operators) > 0 /\ Len(u.values) < 2 THEN Abort(g)
       ELSE LET new_token ==
                    IF Len(u.operators) = 0
                    THEN with_args_and_body(t_type, "Equals", u.values[1],
                                            SomeValue(BoolLiteral(TRUE)), body_idx)
                    ELSE with_args_and_body(t_type, u.operators[1], u.values[1],
                                            SomeValue(u.values[2]), body_idx)
                g1 == insert_ast_token_at_end(r.g, new_token)
            IN IF ~NextIs(g1, toks, "ScopeOpen") THEN Abort(g)
               ELSE advance_token(insert_new_empty_ast_scope(g1))

\* astgen.rs:646-680 (Alloc) and astgen.rs:681-715 (Set)
parse_assignment(g, toks, t_type) ==
    IF ~HasNext(g, toks) THEN Abort(g)
    ELSE LET variable_expression == resolve_variable_write_like_token(peek_next_token(g, toks))
             g1 == advance_token(g)
         IN IF ~variable_expression.ok THEN Abort(g)
            ELSE IF ~HasNext(g1, toks) THEN Abort(g)
            ELSE IF ~token_is_assign_like(peek_next_token(g1, toks)) THEN Abort(g)
            ELSE LET r == advance_and_gather_tokens_for_value(advance_token(g1), toks, <<>>)
                     a == statement_argument(r.toks)
                 IN IF ~r.g.ok \/ ~a.ok THEN Abort(g)
                    ELSE expect_line_end(
                             insert_ast_token_at_end(r.g,
                                 with_args(t_type, variable_expression.v, SomeValue(a.v))),
                             toks)

\* astgen.rs:716-758
parse_Variable(g, toks) ==
    IF ~HasNext(g, toks) THEN Abort(g)
    ELSE IF ~token_is_assign_op_like(peek_next_token(g, toks)) THEN Abort(g)
    ELSE LET current_token == At(toks, g.current_token_idx)
             assign_op == IF peek_next_token(g, toks).token = "PlusEquals"
                          THEN Tok("Plus") ELSE Tok("Minus")
             r == advance_and_gather_tokens_for_value(advance_token(g), toks, <<>>)
             value_token == resolve_any_value(<<current_token, assign_op>> \o r.toks)
         IN IF ~r.g.ok \/ ~value_token.ok THEN Abort(g)
            ELSE expect_line_end(
                     insert_ast_token_at_end(r.g,
                         with_args("Set", Variable(current_token.name),
                                   SomeValue(value_token.v))),
                     toks)

\* astgen.rs:759-783
parse_Print(g, toks) ==
    LET r == advance_and_gather_tokens_for_value(g, toks, <<>>)
        a == statement_argument(r.toks)
    IN IF ~r.g.ok \/ ~a.ok THEN Abort(g)
       ELSE expect_line_end(
                insert_ast_token_at_end(r.g, with_args("DebugPrintCall", a.v, NoValue)),
                toks)

\* astgen.rs:784-797
parse_ReadLine(g, toks) ==
    IF ~HasNext(g, toks) THEN Abort(g)
    ELSE LET variable_expression == resolve_variable_write_like_token(peek_next_token(g, toks))
         IN IF ~variable_expression.ok THEN Abort(g)
            ELSE expect_line_end(
                     insert_ast_token_at_end(advance_token(g),
                         with_args("ReadLineCall", variable_expression.v, NoValue)),
                     toks)

\* one iteration of the `while self.current_token_idx < self.tokens.len()`
\* loop (astgen.rs:445-804)
match_current_token(g, toks, k) ==
    CASE k = "ScopeOpen" -> insert_new_empty_ast_scope(g)
      [] k = "ScopeClose" -> parse_ScopeClose(g)
      [] k = "EOF" -> parse_EOF(g)
      [] k = "Label" -> parse_Label(g, toks)
      [] k = "Jump" -> parse_Jump(g, toks)
      [] k = "SubroutineCall" -> parse_SubroutineCall(g, toks)
      [] k = "SubroutineReturn" -> parse_SubroutineReturn(g, toks)
      [] k = "SubroutineDefine" -> parse_SubroutineDefine(g, toks)
      [] k = "If" -> parse_condition(g, toks, "If")
      [] k = "While" -> parse_condition(g, toks, "While")
      [] k = "Alloc" -> parse_assignment(g, toks, "Alloc")
      [] k = "Set" -> parse_assignment(g, toks, "Set")
      [] k = "Variable" -> parse_Variable(g, toks)
      [] k = "Print" -> parse_Print(g, toks)
      [] k = "ReadLine" -> parse_ReadLine(g, toks)
      [] OTHER -> g

\* astgen.rs:803: self.advance_token() at the end of an iteration
advance_after_statement(r) == IF r.ok THEN advance_token(r) ELSE r

parse_statement(g, toks) ==
    advance_after_statement(match_current_token(g, toks, At(toks, g.current_token_idx).token))

RECURSIVE parse_loop(_, _)
parse_loop(g, toks) ==
    IF ~g.ok \/ g.current_token_idx >= Len(toks) THEN g
    ELSE parse_loop(parse_statement(g, toks), toks)

\* generated_ast[idx] = of_type(t_type(Some(target))) for every idx of idxs
RECURSIVE backpatch(_, _, _, _)
backpatch(ast, idxs, t_type, target) ==
    IF Len(idxs) = 0 THEN ast
    ELSE backpatch([ast EXCEPT ![idxs[1] + 1] = of_type_target(t_type, SomeIdx(target))],
                   Tail1(idxs), t_type, target)

\* resolve_references with a missing definition skipped instead of unwrapped
RECURSIVE resolve_references_lenient(_, _, _, _, _)
resolve_references_lenient(ast, names, pending, table, t_type) ==
    IF names = {} THEN [ok |-> TRUE, ast |-> ast]
    ELSE LET key == CHOOSE n \in names : TRUE IN
         IF key \notin DOMAIN table
         THEN resolve_references_lenient(ast, names \ {key}, pending, table, t_type)
         ELSE resolve_references_lenient(
                  backpatch(ast, pending[key], t_type, table[key]),
                  names \ {key}, pending, table, t_type)

\* the `for (key, value) in &self.jumps` loop (astgen.rs:806-817) and the one
\* over subroutine_calls (astgen.rs:819-830); names is the set of keys still
\* to be visited
RECURSIVE resolve_references(_, _, _, _, _)
resolve_references(ast, names, pending, table, t_type) ==
    IF names = {} THEN [ok |-> TRUE, ast |-> ast]
    ELSE LET key == CHOOSE n \in names : TRUE IN
         IF key \notin DOMAIN table THEN [ok |-> FALSE, ast |-> ast]
         ELSE resolve_references(backpatch(ast, pending[key], t_type, table[key]),
                                 names \ {key}, pending, table, t_type)

\* astgen.rs:819-830: g1 is the generator after the jumps were resolved into j
resolve_subroutines(g1, j, c) ==
    IF ~c.ok THEN Abort([g1 EXCEPT !.generated_ast = j.ast, !.jumps = EmptyMap])
    ELSE [g1 EXCEPT !.generated_ast = c.ast, !.jumps = EmptyMap,
                    !.subroutine_calls = EmptyMap]

\* astgen.rs:806-817: g1 is the generator after the statement loop
resolve_jumps(g1, j) ==
    IF ~j.ok THEN Abort(g1)
    ELSE resolve_subroutines(g1, j,
             resolve_references(j.ast, DOMAIN g1.subroutine_calls, g1.subroutine_calls,
                                g1.subroutine_table, "SubroutineCall"))

\* astgen.rs:806-830
resolve_dummies(g1) ==
    IF ~g1.ok THEN g1
    ELSE resolve_jumps(g1,
             resolve_references(g1.generated_ast, DOMAIN g1.jumps, g1.jumps,
                                g1.jump_table, "Jump"))

\* astgen.rs:442-831
generate_ast(toks) ==
    resolve_dummies(parse_loop(insert_ast_token_at_end(ASTGenerator_init, empty), toks))

(***************************************************************************)
(* Observation of a run: snapshots of the interpreter, taken before a step. *)
(* They are written by the actions and never read by them.                  *)
(***************************************************************************)
Snap ==
    [inst_ptr |-> inst_ptr, memory_cells |-> memory_cells, variable_map |-> variable_map,
     mem_scope_start_stack |-> mem_scope_start_stack, loop_stack |-> loop_stack,
     return_stack |-> return_stack, return_value |-> return_value, output |-> output]

NoSnap ==
    [inst_ptr |-> 0, memory_cells |-> <<>>, variable_map |-> EmptyMap,
     mem_scope_start_stack |-> <<>>, loop_stack |-> <<>>, return_stack |-> <<>>,
     return_value |-> NoType, output |-> <<>>]

\* kind: the statement executed; at: its index; ok: it did not panic;
\* pre: the interpreter before the step; matched/ref: for BlockEnd the
\* interpreter before the Block it closes, for SubroutineReturn the
\* interpreter before the SubroutineCall it returns from; val: the value the
\* step resolved; taken: the branch decision of If/While/Else.
Step(kind, ok, matched, ref, val, taken) ==
    [kind |-> kind, at |-> inst_ptr, ok |-> ok, pre |-> Snap, matched |-> matched,
     ref |-> ref, val |-> val, taken |-> taken]

NoStep ==
    [kind |-> "none", at |-> 0, ok |-> TRUE, pre |-> NoSnap, matched |-> FALSE,
     ref |-> NoSnap, val |-> TNull, taken |-> FALSE]

(***************************************************************************)
(* interpreter.rs: execute_one                                             *)
(***************************************************************************)
Running == pc = "run" /\ ~halted

InBounds == inst_ptr < Len(ast_tokens)

\* interpreter.rs:58-60
current_inst == At(ast_tokens, inst_ptr)

\* interpreter.rs:61-63 followed by body_extent.unwrap()
HasNextExtent ==
    inst_ptr + 1 < Len(ast_tokens) /\ At(ast_tokens, inst_ptr + 1).body_extent.some
next_body_extent_short == At(ast_tokens, inst_ptr + 1).body_extent.at - 1
next_body_extent == At(ast_tokens, inst_ptr + 1).body_extent.at

Executing(t_type) == Running /\ InBounds /\ current_inst.t_type = t_type

Interp == <<inst_ptr, memory_cells, variable_map, mem_scope_start_stack, loop_stack,
            else_flag, return_stack, return_value, output, halted>>
Fixed == <<tokens, astgen, overflow_checks, ast_tokens, eval>>
Logs == <<open_log, call_log>>

\* a panic that is recorded as a normal halt
Panic_halting(kind) ==
    /\ pc' = "panic"
    /\ halted' = TRUE
    /\ last' = Step(kind, FALSE, FALSE, NoSnap, TNull, FALSE)
    /\ UNCHANGED <<inst_ptr, memory_cells, variable_map, mem_scope_start_stack, loop_stack,
                   else_flag, return_stack, return_value, output, Logs, Fixed>>

\* a panic ends the process
Panic(kind) ==
    /\ pc' = "panic"
    /\ last' = Step(kind, FALSE, FALSE, NoSnap, TNull, FALSE)
    /\ UNCHANGED <<Interp, Logs, Fixed>>

\* the frame on top of the return stack with its `scopes deep` changed by d;
\* a count that would pass below 0 is an overflow
bump_depth(rs, d) ==
    IF Len(rs) = 0 THEN rs
    ELSE [rs EXCEPT ![Len(rs)] = <<rs[Len(rs)][1], rs[Len(rs)][2] + d>>]

\* interpreter.rs:334-343
ExecEOF ==
    /\ Executing("EOF")
    /\ halted' = TRUE
    /\ pc' = "halted"
    /\ last' = Step("EOF", TRUE, FALSE, NoSnap, TNull, FALSE)
    /\ UNCHANGED <<inst_ptr, memory_cells, variable_map, mem_scope_start_stack,
                   loop_stack, else_flag, return_stack, return_value, output>>
    /\ UNCHANGED <<Fixed, Logs>>

\* interpreter.rs:344-359
ExecBlock ==
    /\ Executing("Block")
    /\ Len(mem_scope_start_stack) < MaxScopes
    /\ mem_scope_start_stack' = Append(mem_scope_start_stack, Len(memory_cells))
    /\ loop_stack' = Append(loop_stack, inst_ptr)
    /\ inst_ptr' = inst_ptr + 1
    /\ return_stack' = bump_depth(return_stack, 1)
    /\ pc' = pc
    /\ last' = Step("Block", TRUE, FALSE, NoSnap, TNull, FALSE)
    /\ open_log' = Append(open_log, [at |-> inst_ptr, pre |-> Snap])
    /\ UNCHANGED <<memory_cells, variable_map, else_flag, return_value, output, halted,
                   call_log, Fixed>>

\* the entries of open_log, topmost first, that belong to the Block closed by
\* the BlockEnd at index j (the Block at b with b + body_extent = j)
ClosedBy(e, j) ==
    /\ e.at < Len(ast_tokens)
    /\ At(ast_tokens, e.at).body_extent.some
    /\ e.at + At(ast_tokens, e.at).body_extent.at = j

MatchingOpen(j) ==
    LET ks == {k \in 1..Len(open_log) : ClosedBy(open_log[k], j)}
    IN IF ks = {} THEN 0 ELSE CHOOSE k \in ks : \A m \in ks : m <= k

\* interpreter.rs:360-391
ExecBlockEnd ==
    /\ Executing("BlockEnd")
    /\ LET popped == Last(loop_stack)
           loop_idx == popped - 1
           inv == invalidate_current_scope(memory_cells, variable_map,
                                           mem_scope_start_stack, overflow_checks)
           depth_underflow == Len(return_stack) > 0 /\ Last(return_stack)[2] = 0
           k == MatchingOpen(inst_ptr)
       IN IF \/ Len(loop_stack) = 0
             \/ popped = 0
             \/ ~inv.ok
             \/ (depth_underflow /\ overflow_checks)
          THEN Panic("BlockEnd")
          ELSE /\ loop_stack' = Front(loop_stack)
               /\ memory_cells' = inv.mem
               /\ variable_map' = inv.vm
               /\ mem_scope_start_stack' = inv.scopes
               /\ return_stack' = bump_depth(return_stack, -1)
               /\ inst_ptr' = IF loop_idx > 0
                              THEN IF At(ast_tokens, loop_idx).t_type = "While"
                                   THEN loop_idx ELSE inst_ptr + 1
                              ELSE inst_ptr
               /\ pc' = pc
               /\ last' = Step("BlockEnd", TRUE, k > 0,
                               IF k > 0 THEN open_log[k].pre ELSE NoSnap, TNull, FALSE)
               /\ open_log' = IF k > 0 THEN SubSeq(open_log, 1, k - 1) ELSE open_log
               /\ UNCHANGED <<else_flag, return_value, output, halted, call_log, Fixed>>

\* interpreter.rs:401-402: return to token after this call
return_address(call_idx) == call_idx + 1

\* interpreter.rs:392-404
ExecSubroutineCall ==
    /\ Executing("SubroutineCall")
    /\ Len(return_stack) < MaxReturnDepth
    /\ Len(mem_scope_start_stack) < MaxScopes
    /\ IF ~current_inst.target.some
       THEN Panic("SubroutineCall")
       ELSE /\ mem_scope_start_stack' = Append(mem_scope_start_stack, Len(memory_cells))
            /\ return_stack' = Append(return_stack, <<return_address(inst_ptr), 0>>)
            /\ inst_ptr' = current_inst.target.at
            /\ pc' = pc
            /\ last' = Step("SubroutineCall", TRUE, FALSE, NoSnap, TNull, FALSE)
            /\ call_log' = Append(call_log, [pre |-> Snap, opens |-> Len(open_log)])
            /\ UNCHANGED <<memory_cells, variable_map, loop_stack, else_flag,
                           return_value, output, halted, open_log, Fixed>>

\* a return that unwinds the scopes first and resolves its expression after
ExecSubroutineReturn_late ==
    /\ Executing("SubroutineReturn")
    /\ LET base == invalidate_current_scope(memory_cells, variable_map,
                                            mem_scope_start_stack, overflow_checks)
           deep == Last(return_stack)[2]
           rest == invalidate_scopes(IF deep >= 0 THEN deep ELSE Len(base.scopes) + 1,
                                     base.mem, base.vm, base.scopes, overflow_checks)
           r == IF current_inst.arg1.some /\ base.ok /\ rest.ok
                THEN resolve_argument_value(current_inst.arg1.v, rest.vm,
                                            return_value, overflow_checks, rest.mem)
                ELSE Fatal(memory_cells)
       IN IF ~r.ok \/ ~base.ok \/ Len(return_stack) = 0 \/ ~rest.ok
          THEN Panic("SubroutineReturn")
          ELSE IF deep < 0
          THEN /\ pc' = "hang"
               /\ last' = Step("SubroutineReturn", TRUE, FALSE, NoSnap, r.w.value, FALSE)
               /\ UNCHANGED <<Interp, Logs, Fixed>>
          ELSE /\ return_value' = SomeType(r.w.value)
               /\ memory_cells' = rest.mem
               /\ variable_map' = rest.vm
               /\ mem_scope_start_stack' = rest.scopes
               /\ inst_ptr' = Last(return_stack)[1]
               /\ return_stack' = Front(return_stack)
               /\ pc' = pc
               /\ last' = Step("SubroutineReturn", TRUE, Len(call_log) > 0,
                               IF Len(call_log) > 0 THEN Last(call_log).pre ELSE NoSnap,
                               r.w.value, FALSE)
               /\ call_log' = IF Len(call_log) > 0 THEN Front(call_log) ELSE call_log
               /\ open_log' = IF Len(call_log) > 0
                              THEN SubSeq(open_log, 1, Last(call_log).opens)
                              ELSE open_log
               /\ UNCHANGED <<loop_stack, else_flag, output, halted, Fixed>>

\* interpreter.rs:405-423.  A `scopes deep` count that has wrapped below 0
\* stands for a count near usize::MAX: the loop then runs until a pop of the
\* empty scope-start stack panics, or without end once the store is empty.
ExecSubroutineReturn ==
    /\ Executing("SubroutineReturn")
    /\ LET r == IF current_inst.arg1.some
                THEN resolve_argument_value(current_inst.arg1.v, variable_map,
                                            return_value, overflow_checks, memory_cells)
                ELSE Fatal(memory_cells)
           base == invalidate_current_scope(r.mem, variable_map, mem_scope_start_stack,
                                            overflow_checks)
           deep == Last(return_stack)[2]
           rest == invalidate_scopes(IF deep >= 0 THEN deep ELSE Len(base.scopes) + 1,
                                     base.mem, base.vm, base.scopes, overflow_checks)
       IN IF ~r.ok \/ ~base.ok \/ Len(return_stack) = 0 \/ ~rest.ok
          THEN Panic("SubroutineReturn")
          ELSE IF deep < 0
          THEN /\ pc' = "hang"
               /\ last' = Step("SubroutineReturn", TRUE, FALSE, NoSnap, r.w.value, FALSE)
               /\ UNCHANGED <<Interp, Logs, Fixed>>
          ELSE /\ return_value' = SomeType(r.w.value)
               /\ memory_cells' = rest.mem
               /\ variable_map' = rest.vm
               /\ mem_scope_start_stack' = rest.scopes
               /\ inst_ptr' = Last(return_stack)[1]
               /\ return_stack' = Front(return_stack)
               /\ pc' = pc
               /\ last' = Step("SubroutineReturn", TRUE, Len(call_log) > 0,
                               IF Len(call_log) > 0 THEN Last(call_log).pre ELSE NoSnap,
                               r.w.value, FALSE)
               /\ call_log' = IF Len(call_log) > 0 THEN Front(call_log) ELSE call_log
               /\ open_log' = IF Len(call_log) > 0
                              THEN SubSeq(open_log, 1, Last(call_log).opens)
                              ELSE open_log
               /\ UNCHANGED <<loop_stack, else_flag, output, halted, Fixed>>

\* interpreter.rs:424-434
ExecSubroutineDefine ==
    /\ Executing("SubroutineDefine")
    /\ IF ~HasNextExtent
       THEN Panic("SubroutineDefine")
       ELSE /\ inst_ptr' = inst_ptr + next_body_extent + 2
            /\ pc' = pc
            /\ last' = Step("SubroutineDefine", TRUE, FALSE, NoSnap, TNull, FALSE)
            /\ UNCHANGED <<memory_cells, variable_map, mem_scope_start_stack, loop_stack,
                           else_flag, return_stack, return_value, output, halted,
                           Logs, Fixed>>

\* the shared shape of the Alloc and Set arms: arg1 must be a Variable, arg2
\* is resolved, then the store operation is applied
IsNamed(inst) == inst.arg1.some /\ inst.arg1.v.kind = "Variable" /\ inst.arg2.some

\* interpreter.rs:435-455
ExecAlloc ==
    /\ Executing("Alloc")
    /\ LET second_arg == IF IsNamed(current_inst)
                         THEN resolve_argument_value(current_inst.arg2.v, variable_map,
                                  return_value, overflow_checks, memory_cells)
                         ELSE Fatal(memory_cells)
           st == create_new_variable(current_inst.arg1.v.name, second_arg.w.value,
                                     second_arg.mem, variable_map, mem_scope_start_stack)
       IN IF ~second_arg.ok \/ ~st.ok
          THEN Panic("Alloc")
          ELSE /\ memory_cells' = st.mem
               /\ variable_map' = st.vm
               /\ inst_ptr' = inst_ptr + 1
               /\ pc' = pc
               /\ last' = Step("Alloc", TRUE, FALSE, NoSnap, second_arg.w.value, FALSE)
               /\ UNCHANGED <<mem_scope_start_stack, loop_stack, else_flag, return_stack,
                              return_value, output, halted, Logs, Fixed>>

\* interpreter.rs:456-476
ExecSet ==
    /\ Executing("Set")
    /\ LET second_arg == IF IsNamed(current_inst)
                         THEN resolve_argument_value(current_inst.arg2.v, variable_map,
                                  return_value, overflow_checks, memory_cells)
                         ELSE Fatal(memory_cells)
           st == set_or_create_new_variable(current_inst.arg1.v.name, second_arg.w.value,
                                            second_arg.mem, variable_map,
                                            mem_scope_start_stack)
       IN IF ~second_arg.ok \/ ~st.ok
          THEN Panic("Set")
          ELSE /\ memory_cells' = st.mem
               /\ variable_map' = st.vm
               /\ inst_ptr' = inst_ptr + 1
               /\ pc' = pc
               /\ last' = Step("Set", TRUE, FALSE, NoSnap, second_arg.w.value, FALSE)
               /\ UNCHANGED <<mem_scope_start_stack, loop_stack, else_flag, return_stack,
                              return_value, output, halted, Logs, Fixed>>

\* interpreter.rs:477-494.  An entry of output is the value handed to print!
ExecDebugPrintCall ==
    /\ Executing("DebugPrintCall")
    /\ LET r == IF current_inst.arg1.some
                THEN resolve_argument_value(current_inst.arg1.v, variable_map,
                                            return_value, overflow_checks, memory_cells)
                ELSE Fatal(memory_cells)
       IN IF ~r.ok \/ r.w.value.tag = "Null"
          THEN Panic("DebugPrintCall")
          ELSE /\ output' = Append(output, r.w.value)
               /\ memory_cells' = r.mem
               /\ inst_ptr' = inst_ptr + 1
               /\ pc' = pc
               /\ last' = Step("DebugPrintCall", TRUE, FALSE, NoSnap, r.w.value, FALSE)
               /\ UNCHANGED <<variable_map, mem_scope_start_stack, loop_stack, else_flag,
                              return_stack, return_value, halted, Logs, Fixed>>

\* the condition of If and While: both operands resolved in order, then the
\* operator applied (interpreter.rs:503-506, 540-543)
condition_operate(inst, oc, first_arg, second_arg) ==
    IF ~second_arg.ok THEN second_arg
    ELSE operate_on_types(first_arg.w, second_arg.w, inst.op, oc, second_arg.mem)

condition_second(inst, vm, rv, oc, first_arg) ==
    IF ~first_arg.ok THEN first_arg
    ELSE condition_operate(inst, oc, first_arg,
             resolve_argument_value(inst.arg2.v, vm, rv, oc, first_arg.mem))

condition(inst, vm, rv, oc, mem) ==
    IF ~inst.arg1.some \/ ~inst.arg2.some THEN Fatal(mem)
    ELSE condition_second(inst, vm, rv, oc,
             resolve_argument_value(inst.arg1.v, vm, rv, oc, mem))

\* the effect of an If or While whose condition evaluated to c
branch(kind, c, taken) ==
    IF ~c.ok \/ (~taken /\ ~HasNextExtent)
    THEN Panic(kind)
    ELSE /\ else_flag' = IF kind = "If" THEN ~taken ELSE else_flag
         /\ inst_ptr' = IF taken THEN inst_ptr + 1
                        ELSE inst_ptr + next_body_extent + 2
         /\ memory_cells' = c.mem
         /\ pc' = pc
         /\ last' = Step(kind, TRUE, FALSE, NoSnap, c.w.value, taken)
         /\ UNCHANGED <<variable_map, mem_scope_start_stack, loop_stack,
                        return_stack, return_value, output, halted, Logs, Fixed>>

\* the branch test negated
is_true_negated(c) == c.w.value # TBool(TRUE)

\* `.value == Type::Bool(true)` (interpreter.rs:506, 543)
is_true(c) == c.w.value = TBool(TRUE)

branch_on(kind, c) == branch(kind, c, is_true(c))

\* interpreter.rs:495-515
ExecIf ==
    /\ Executing("If")
    /\ branch_on("If", condition(current_inst, variable_map, return_value,
                                 overflow_checks, memory_cells))

\* interpreter.rs:516-531
ExecElse ==
    /\ Executing("Else")
    /\ IF ~else_flag /\ ~HasNextExtent
       THEN Panic("Else")
       ELSE /\ else_flag' = FALSE
            /\ inst_ptr' = IF else_flag THEN inst_ptr + 1
                           ELSE inst_ptr + next_body_extent + 2
            /\ pc' = pc
            /\ last' = Step("Else", TRUE, FALSE, NoSnap, TNull, else_flag)
            /\ UNCHANGED <<memory_cells, variable_map, mem_scope_start_stack, loop_stack,
                           return_stack, return_value, output, halted, Logs, Fixed>>

\* interpreter.rs:532-549
ExecWhile ==
    /\ Executing("While")
    /\ branch_on("While", condition(current_inst, variable_map, return_value,
                                    overflow_checks, memory_cells))

\* the statement kinds with an arm of their own in execute_one
OwnArm ==
    {"EOF", "Block", "BlockEnd", "SubroutineCall", "SubroutineReturn", "SubroutineDefine",
     "Alloc", "Set", "DebugPrintCall", "If", "Else", "While"}

\* interpreter.rs:550-552: every other statement (Empty, ReadLineCall, Jump,
\* Label) only advances; interpreter.rs:331: fetching past the end panics
ExecOther ==
    /\ Running
    /\ IF ~InBounds
       THEN Panic("fetch")
       ELSE /\ current_inst.t_type \notin OwnArm
            /\ inst_ptr' = inst_ptr + 1
            /\ pc' = pc
            /\ last' = Step(current_inst.t_type, TRUE, FALSE, NoSnap, TNull, FALSE)
            /\ UNCHANGED <<memory_cells, variable_map, mem_scope_start_stack, loop_stack,
                           else_flag, return_stack, return_value, output, halted,
                           Logs, Fixed>>

(***************************************************************************)
(* main.rs: parse, then run                                                *)
(***************************************************************************)
NoEval == [first |-> from(TNull), second |-> from(TNull), operator |-> "",
           done |-> FALSE, ok |-> TRUE, result |-> from(TNull)]

\* main.rs:51-58: generate_ast, then Interpreter::init on the generated AST
GenerateAst ==
    /\ pc = "parse"
    /\ astgen' = generate_ast(tokens)
    /\ ast_tokens' = IF astgen'.ok THEN astgen'.generated_ast ELSE <<>>
    /\ pc' = IF astgen'.ok THEN "run" ELSE "panic"
    /\ last' = Step("parse", astgen'.ok, FALSE, NoSnap, TNull, FALSE)
    /\ UNCHANGED <<tokens, overflow_checks, eval, Interp, Logs>>

(***************************************************************************)
(* Source programs, as the token streams the parser receives.               *)
(***************************************************************************)
RECURSIVE Flatten(_)
Flatten(ss) == IF Len(ss) = 0 THEN <<>> ELSE ss[1] \o Flatten(Tail1(ss))

Program(statements) == Flatten(statements) \o <<Tok("EOF")>>

sAlloc(name, e) == <<Tok("Alloc"), TokVar(name), Tok("Assign")>> \o e \o <<Tok("LineEnd")>>
sSet(name, e) == <<Tok("Set"), TokVar(name), Tok("Assign")>> \o e \o <<Tok("LineEnd")>>
sPlusEq(name, e) == <<TokVar(name), Tok("PlusEquals")>> \o e \o <<Tok("LineEnd")>>
sMinusEq(name, e) == <<TokVar(name), Tok("MinusEquals")>> \o e \o <<Tok("LineEnd")>>
sPrint(e) == <<Tok("Print")>> \o e \o <<Tok("LineEnd")>>
sIf(e) == <<Tok("If")>> \o e \o <<Tok("ScopeOpen")>>
sWhile(e) == <<Tok("While")>> \o e \o <<Tok("ScopeOpen")>>
sOpen == <<Tok("ScopeOpen")>>
sClose == <<Tok("ScopeClose")>>
sSub(name) == <<Tok("SubroutineDefine"), TokVar(name), Tok("ScopeOpen")>>
sCall(name) == <<Tok("SubroutineCall"), TokVar(name), Tok("LineEnd")>>
sCallTo(name, out) ==
    <<Tok("SubroutineCall"), TokVar(name), Tok("SubroutineDirect"), TokVar(out),
      Tok("LineEnd")>>
sRet(e) == <<Tok("SubroutineReturn")>> \o e \o <<Tok("LineEnd")>>
sLabel(name) == <<Tok("Label"), TokVar(name), Tok("LineEnd")>>
sJump(name) == <<Tok("Jump"), TokVar(name), Tok("LineEnd")>>

eInt(n) == <<TokInt(n)>>
eVar(name) == <<TokVar(name)>>
eTrue == <<Tok("BoolTrue")>>
eFalse == <<Tok("BoolFalse")>>
eBin(l, op, r) == l \o <<Tok(op)>> \o r

\* if true { alloc x = 1; } print 1;
BlockOnEmptyStore ==
    Program(<<sIf(eTrue), sAlloc("x", eInt(1)), sClose, sPrint(eInt(1))>>)

\* if true { } print 1;
EmptyBlockOnEmptyStore == Program(<<sIf(eTrue), sClose, sPrint(eInt(1))>>)

\* alloc a = 1; if a == 1 { alloc x = 2; set a = 3; if x == 2 { alloc y = 1; } } print a;
NestedBlocks ==
    Program(<<sAlloc("a", eInt(1)), sIf(eBin(eVar("a"), "Equals", eInt(1))),
              sAlloc("x", eInt(2)), sSet("a", eInt(3)),
              sIf(eBin(eVar("x"), "Equals", eInt(2))), sAlloc("y", eInt(1)), sClose,
              sClose, sPrint(eVar("a"))>>)

\* alloc a = 1; { alloc b = 2; } print a;
BareBlock ==
    Program(<<sAlloc("a", eInt(1)), sOpen, sAlloc("b", eInt(2)), sClose,
              sPrint(eVar("a"))>>)

\* { alloc b = 2; } print 1;
BareBlockFirst == Program(<<sOpen, sAlloc("b", eInt(2)), sClose, sPrint(eInt(1))>>)

\* alloc i = 0; while i < 2 { alloc t = i; i += 1; } print i;
CountingLoop ==
    Program(<<sAlloc("i", eInt(0)), sWhile(eBin(eVar("i"), "LessThan", eInt(2))),
              sAlloc("t", eVar("i")), sPlusEq("i", eInt(1)), sClose, sPrint(eVar("i"))>>)

\* alloc i = 0; while false { print 1; } print 2;
LoopNeverEntered ==
    Program(<<sAlloc("i", eInt(0)), sWhile(eFalse), sPrint(eInt(1)), sClose,
              sPrint(eInt(2))>>)

\* alloc i = 0; while i < 2 { if i == 0 { alloc z = 1; } i += 1; } print i;
LoopWithNestedIf ==
    Program(<<sAlloc("i", eInt(0)), sWhile(eBin(eVar("i"), "LessThan", eInt(2))),
              sIf(eBin(eVar("i"), "Equals", eInt(0))), sAlloc("z", eInt(1)), sClose,
              sPlusEq("i", eInt(1)), sClose, sPrint(eVar("i"))>>)

\* alloc i = 0; alloc j = 0;
\* while i < 2 { set j = 0; while j < 2 { j += 1; } i += 1; } print i;
NestedLoops ==
    Program(<<sAlloc("i", eInt(0)), sAlloc("j", eInt(0)),
              sWhile(eBin(eVar("i"), "LessThan", eInt(2))), sSet("j", eInt(0)),
              sWhile(eBin(eVar("j"), "LessThan", eInt(2))), sPlusEq("j", eInt(1)), sClose,
              sPlusEq("i", eInt(1)), sClose, sPrint(eVar("i"))>>)

\* alloc i = 0; sub f { ret 1; } while i < 2 { call f; i += 1; } print i;
LoopWithCall ==
    Program(<<sAlloc("i", eInt(0)), sSub("f"), sRet(eInt(1)), sClose,
              sWhile(eBin(eVar("i"), "LessThan", eInt(2))), sCall("f"),
              sPlusEq("i", eInt(1)), sClose, sPrint(eVar("i"))>>)

\* while true { }
LoopForever == Program(<<sWhile(eTrue), sClose>>)

\* jump skip; print "a"; : skip; print "b";
JumpForward ==
    Program(<<sJump("skip"), sPrint(<<TokStr(<<"a">>)>>), sLabel("skip"),
              sPrint(<<TokStr(<<"b">>)>>)>>)

\* alloc a = 1; sub f { alloc t = 2; if t == 2 { alloc u = 3; ret u + t; } }
\* call f -> out; print out;
CallWithOpenBlocks ==
    Program(<<sAlloc("a", eInt(1)), sSub("f"), sAlloc("t", eInt(2)),
              sIf(eBin(eVar("t"), "Equals", eInt(2))), sAlloc("u", eInt(3)),
              sRet(eBin(eVar("u"), "Plus", eVar("t"))), sClose, sClose,
              sCallTo("f", "out"), sPrint(eVar("out"))>>)

\* call f -> out; print out; sub f { alloc t = 2; ret t; }     (store empty at the call)
CallOnEmptyStore ==
    Program(<<sCallTo("f", "out"), sPrint(eVar("out")), sSub("f"), sAlloc("t", eInt(2)),
              sRet(eVar("t")), sClose>>)

\* sub f { } call f -> out; print out;                          (store empty throughout)
CallEmptyBody == Program(<<sSub("f"), sClose, sCallTo("f", "out"), sPrint(eVar("out"))>>)

\* alloc a = 1; sub g { alloc w = 5; ret w; } sub f { alloc t = 2; call g -> r; ret r + t; }
\* if a == 1 { call f -> out; print out; set a = out; } print a;
NestedCalls ==
    Program(<<sAlloc("a", eInt(1)), sSub("g"), sAlloc("w", eInt(5)), sRet(eVar("w")), sClose,
              sSub("f"), sAlloc("t", eInt(2)), sCallTo("g", "r"),
              sRet(eBin(eVar("r"), "Plus", eVar("t"))), sClose,
              sIf(eBin(eVar("a"), "Equals", eInt(1))), sCallTo("f", "out"),
              sPrint(eVar("out")), sSet("a", eVar("out")), sClose, sPrint(eVar("a"))>>)

\* alloc a = 1; alloc out = 0; sub f { ret; } call f -> out; print out;
CallDefaultReturn ==
    Program(<<sAlloc("a", eInt(1)), sAlloc("out", eInt(0)), sSub("f"), sRet(<<>>), sClose,
              sCallTo("f", "out"), sPrint(eVar("out"))>>)

\* alloc a = 1; sub f { alloc out = 9; ret out + 1; } call f -> out; print out;
CallShadowedResult ==
    Program(<<sAlloc("a", eInt(1)), sSub("f"), sAlloc("out", eInt(9)),
              sRet(eBin(eVar("out"), "Plus", eInt(1))), sClose, sCallTo("f", "out"),
              sPrint(eVar("out"))>>)

\* sub f { alloc out = 9; ret out + 1; } call f -> out; print out;
CallShadowedOnEmptyStore ==
    Program(<<sSub("f"), sAlloc("out", eInt(9)), sRet(eBin(eVar("out"), "Plus", eInt(1))),
              sClose, sCallTo("f", "out"), sPrint(eVar("out"))>>)

\* alloc x = 1; sub f { while x == 1 { ret; } } if x == 1 { call f; } print x;
ReturnFromLoop ==
    Program(<<sAlloc("x", eInt(1)), sSub("f"), sWhile(eBin(eVar("x"), "Equals", eInt(1))),
              sRet(<<>>), sClose, sClose,
              sIf(eBin(eVar("x"), "Equals", eInt(1))), sCall("f"), sClose,
              sPrint(eVar("x"))>>)

\* alloc n = 0; sub f { n += 1; call f; } call f;               (unbounded recursion)
Recursion ==
    Program(<<sAlloc("n", eInt(0)), sSub("f"), sPlusEq("n", eInt(1)), sCall("f"), sClose,
              sCall("f")>>)

\* alloc x = 5; x += 3; print x;
CompoundExample == Program(<<sAlloc("x", eInt(5)), sPlusEq("x", eInt(3)), sPrint(eVar("x"))>>)

\* alloc a = [1,2,3]; alloc b = a.pop; print b; print a;
PopExample ==
    Program(<<sAlloc("a", <<Tok("ArrayOpen"), TokInt(1), Tok("Comma"), TokInt(2),
                           Tok("Comma"), TokInt(3), Tok("ArrayClose")>>),
              sAlloc("b", <<TokVar("a"), Tok("PopAccess")>>), sPrint(eVar("b")),
              sPrint(eVar("a"))>>)

\* alloc a = [1 2 3]; alloc b = a.pop; print b; print a;
PopWithoutCommas ==
    Program(<<sAlloc("a", <<Tok("ArrayOpen"), TokInt(1), TokInt(2), TokInt(3),
                           Tok("ArrayClose")>>),
              sAlloc("b", <<TokVar("a"), Tok("PopAccess")>>), sPrint(eVar("b")),
              sPrint(eVar("a"))>>)

\* alloc a = [1 2 3]; print a.; print a|1|; print a + 4; print a;
ArrayReads ==
    Program(<<sAlloc("a", <<Tok("ArrayOpen"), TokInt(1), TokInt(2), TokInt(3),
                           Tok("ArrayClose")>>),
              sPrint(<<TokVar("a"), Tok("LenAccess")>>),
              sPrint(<<TokVar("a"), Tok("ArrayAccess"), TokInt(1), Tok("ArrayAccess")>>),
              sPrint(eBin(eVar("a"), "Plus", eInt(4))), sPrint(eVar("a"))>>)

\* print true + 1;
BoolPlusInt == Program(<<sPrint(eBin(eTrue, "Plus", eInt(1)))>>)

\* readln v; print 5 - (3 - 1);
ReadAndParens ==
    Program(<<<<Tok("ReadLine"), TokVar("v"), Tok("LineEnd")>>,
              sPrint(<<TokInt(5), Tok("Minus"), Tok("ParensOpen"), TokInt(3), Tok("Minus"),
                       TokInt(1), Tok("ParensClose")>>)>>)

\* jump nowhere; print 1;                                       (no `: nowhere`)
UnresolvedJump == Program(<<sJump("nowhere"), sPrint(eInt(1))>>)

\* call g; sub f { } print 1;                                   (no `sub g`)
UnresolvedCall == Program(<<sCall("g"), sSub("f"), sClose, sPrint(eInt(1))>>)

\* : top; sub f { } jump top; jump end; call f; call g; : end;  (no `sub g`)
UnresolvedAmongResolved ==
    Program(<<sLabel("top"), sSub("f"), sClose, sJump("top"), sJump("end"), sCall("f"),
              sCall("g"), sLabel("end")>>)

\* alloc a = 1; alloc a = 2; print a;
DoubleAlloc == Program(<<sAlloc("a", eInt(1)), sAlloc("a", eInt(2)), sPrint(eVar("a"))>>)

\* alloc a = 1; if a == 1 { alloc x = 1; alloc a = 2; } print a;
AllocOfOuterName ==
    Program(<<sAlloc("a", eInt(1)), sIf(eBin(eVar("a"), "Equals", eInt(1))),
              sAlloc("x", eInt(1)), sAlloc("a", eInt(2)), sClose, sPrint(eVar("a"))>>)

\* if true { alloc x = 1; } set x = 2; print x;
SetAfterBlock ==
    Program(<<sIf(eTrue), sAlloc("x", eInt(1)), sClose, sSet("x", eInt(2)),
              sPrint(eVar("x"))>>)

\* call f; sub g { } sub f { ret 1; } call f -> out; call g; print out;
CallBeforeAndAfter ==
    Program(<<sCall("f"), sSub("g"), sClose, sSub("f"), sRet(eInt(1)), sClose,
              sCallTo("f", "out"), sCall("g"), sPrint(eVar("out"))>>)

\* alloc i = 1; if i <op> 1 { print 1; } print i <op> 2;
ComparisonProgram(op) ==
    Program(<<sAlloc("i", eInt(1)), sIf(eBin(eVar("i"), op, eInt(1))), sPrint(eInt(1)),
              sClose, sPrint(eBin(eVar("i"), op, eInt(2)))>>)

ComparisonPrograms == {ComparisonProgram(op) : op \in Comparisons}

\* the values given to the operand f of a condition
ConditionOperands ==
    {eTrue, eFalse, eInt(0), eInt(1), <<TokStr(<<>>)>>, <<TokStr(<<"a">>)>>,
     <<Tok("ArrayOpen"), TokInt(1), Tok("ArrayClose")>>}

ConditionKinds == {"If", "While"}
ConditionForms == {"implicit", "explicit"}

\* alloc f = <e>; if f { set f = false; } print 1;          (implicit form)
\* alloc f = <e>; if f == true { set f = false; } print 1;  (explicit form)
\* and the same two with `while`
ConditionProgram(kind, e, form) ==
    Program(<<sAlloc("f", e),
              <<Tok(kind)>> \o (IF form = "implicit" THEN eVar("f")
                                ELSE eBin(eVar("f"), "Equals", eTrue))
                            \o <<Tok("ScopeOpen")>>,
              sSet("f", eFalse), sClose, sPrint(eInt(1))>>)

ConditionPrograms ==
    {ConditionProgram(kind, e, form) :
        <<kind, e, form>> \in ConditionKinds \X ConditionOperands \X ConditionForms}

\* the two conditions written with more than one operator
MultiOperatorExpressions ==
    {eBin(eBin(eVar("a"), "Plus", eInt(1)), "Equals", eVar("b")),
     eBin(eBin(eVar("a"), "Equals", eInt(1)), "Plus", eInt(1))}

\* alloc a = 1; alloc b = 2; if a + 1 == b { set a = 0; } print a;
\* alloc a = 1; alloc b = 2; if a == 1 + 1 { set a = 0; } print a;
\* and the same two with `while`
MultiOperatorCondition(kind, e) ==
    Program(<<sAlloc("a", eInt(1)), sAlloc("b", eInt(2)),
              <<Tok(kind)>> \o e \o <<Tok("ScopeOpen")>>,
              sSet("a", eInt(0)), sClose, sPrint(eVar("a"))>>)

MultiOperatorPrograms ==
    {MultiOperatorCondition(kind, e) :
        <<kind, e>> \in ConditionKinds \X MultiOperatorExpressions}

\* alloc a = 1; sub f { alloc t = 2; } call f -> out; print out;
ImplicitReturnAfterAlloc ==
    Program(<<sAlloc("a", eInt(1)), sSub("f"), sAlloc("t", eInt(2)), sClose,
              sCallTo("f", "out"), sPrint(eVar("out"))>>)

\* sub f { alloc out = 9; } call f -> out; print out;           (store empty at the call)
ImplicitReturnShadowed ==
    Program(<<sSub("f"), sAlloc("out", eInt(9)), sClose, sCallTo("f", "out"),
              sPrint(eVar("out"))>>)

\* sub f { alloc out = 9; ret; } call f -> out; print out;      (store empty at the call)
DefaultReturnShadowed ==
    Program(<<sSub("f"), sAlloc("out", eInt(9)), sRet(<<>>), sClose, sCallTo("f", "out"),
              sPrint(eVar("out"))>>)

\* print z;
ReadUnbound == Program(<<sPrint(eVar("z"))>>)

\* alloc a = 1; if a == 1 { alloc x = 2; } print x;
ReadAfterBlock ==
    Program(<<sAlloc("a", eInt(1)), sIf(eBin(eVar("a"), "Equals", eInt(1))),
              sAlloc("x", eInt(2)), sClose, sPrint(eVar("x"))>>)

\* if true { alloc x = 1; } alloc y = 2; print x;               (store empty at the block)
ReadAfterBlockOnEmptyStore ==
    Program(<<sIf(eTrue), sAlloc("x", eInt(1)), sClose, sAlloc("y", eInt(2)),
              sPrint(eVar("x"))>>)

\* alloc a = 1; sub f { alloc t = 2; } call f; print t;
ReadAfterReturn ==
    Program(<<sAlloc("a", eInt(1)), sSub("f"), sAlloc("t", eInt(2)), sClose, sCall("f"),
              sPrint(eVar("t"))>>)

\* sub f { alloc t = 2; } call f; alloc y = 3; print t;        (store empty at the call)
ReadAfterReturnOnEmptyStore ==
    Program(<<sSub("f"), sAlloc("t", eInt(2)), sClose, sCall("f"), sAlloc("y", eInt(3)),
              sPrint(eVar("t"))>>)

\* alloc a = 1; while true { }
LoopForeverWithStore == Program(<<sAlloc("a", eInt(1)), sWhile(eTrue), sClose>>)

\* alloc a = 1; if a == 2 { } while a == 2 { } print a;
SkipEmptyBody ==
    Program(<<sAlloc("a", eInt(1)), sIf(eBin(eVar("a"), "Equals", eInt(2))), sClose,
              sWhile(eBin(eVar("a"), "Equals", eInt(2))), sClose, sPrint(eVar("a"))>>)

\* alloc a = 1; if a == 2 { if a == 1 { alloc x = 1; } { } } print a;
SkipNestedBody ==
    Program(<<sAlloc("a", eInt(1)), sIf(eBin(eVar("a"), "Equals", eInt(2))),
              sIf(eBin(eVar("a"), "Equals", eInt(1))), sAlloc("x", eInt(1)), sClose,
              sOpen, sClose, sClose, sPrint(eVar("a"))>>)

\* alloc a = 1; sub f { while a == 2 { print 1; } ret a; } call f -> out; print out;
SkipInsideCall ==
    Program(<<sAlloc("a", eInt(1)), sSub("f"),
              sWhile(eBin(eVar("a"), "Equals", eInt(2))), sPrint(eInt(1)), sClose,
              sRet(eVar("a")), sClose, sCallTo("f", "out"), sPrint(eVar("out"))>>)

\* alloc a = 1; { print a;                                      (no closing brace)
UnclosedBlock == Program(<<sAlloc("a", eInt(1)), sOpen, sPrint(eVar("a"))>>)

\* if true { { print 1;                                         (no closing braces)
TwoUnclosedBlocks == Program(<<sIf(eTrue), sOpen, sPrint(eInt(1))>>)

\* alloc x = 1 2; print x;                                      (two operands, no operator)
AllocTwoLiterals ==
    Program(<<sAlloc("x", <<TokInt(1), TokInt(2)>>), sPrint(eVar("x"))>>)

\* print 1 +;                                                   (operator without operand)
DanglingOperator == Program(<<sPrint(<<TokInt(1), Tok("Plus")>>)>>)

\* print 1 2 + 3;                                               (three operands, one operator)
ExtraOperand == Program(<<sPrint(<<TokInt(1), TokInt(2), Tok("Plus"), TokInt(3)>>)>>)

\* jump L; jump L; print 1; : L; print 2; jump L; : M; jump M;
JumpsAroundLabel ==
    Program(<<sJump("L"), sJump("L"), sPrint(eInt(1)), sLabel("L"), sPrint(eInt(2)),
              sJump("L"), sLabel("M"), sJump("M")>>)

\* while true { alloc t = 1; }                                  (store empty at the loop)
LoopAllocOnEmptyStore == Program(<<sWhile(eTrue), sAlloc("t", eInt(1)), sClose>>)

\* alloc a = 1; sub f { if a == 1 { alloc v = 7; ret v; } } call f -> out; print out;
RetVariableFromBlock ==
    Program(<<sAlloc("a", eInt(1)), sSub("f"), sIf(eBin(eVar("a"), "Equals", eInt(1))),
              sAlloc("v", eInt(7)), sRet(eVar("v")), sClose, sClose,
              sCallTo("f", "out"), sPrint(eVar("out"))>>)

\* alloc a = 1; sub f { alloc t = 2; if t == 2 { set a = 5; a += 1; } } call f; print a;
SetInSubroutine ==
    Program(<<sAlloc("a", eInt(1)), sSub("f"), sAlloc("t", eInt(2)),
              sIf(eBin(eVar("t"), "Equals", eInt(2))), sSet("a", eInt(5)),
              sPlusEq("a", eInt(1)), sClose, sClose, sCall("f"), sPrint(eVar("a"))>>)

Lits == 0 .. MaxLit
ArithTokens == {"Plus", "Minus"}

\* print a <op1> b <op2> c;
PrintPrograms ==
    {Program(<<sPrint(eBin(eBin(eInt(a), o1, eInt(b)), o2, eInt(c)))>>) :
        <<a, b, c, o1, o2>> \in Lits \X Lits \X Lits \X ArithTokens \X ArithTokens}

\* the right-hand sides e: a literal, y, 2 + 1, 2 - 1, (2 + 1)
CompoundOperands ==
    {eInt(k) : k \in Lits} \cup {eVar("y"), eBin(eInt(2), "Plus", eInt(1)),
                                 eBin(eInt(2), "Minus", eInt(1)),
                                 <<Tok("ParensOpen")>> \o eBin(eInt(2), "Plus", eInt(1))
                                     \o <<Tok("ParensClose")>>}

\* alloc y = 1; alloc x = n; x <op>= e; print x;
CompoundPrograms ==
    {Program(<<sAlloc("y", eInt(1)), sAlloc("x", eInt(n)),
               IF plus THEN sPlusEq("x", e) ELSE sMinusEq("x", e), sPrint(eVar("x"))>>) :
        <<n, e, plus>> \in Lits \X CompoundOperands \X BOOLEAN}

Programs ==
    {BlockOnEmptyStore, EmptyBlockOnEmptyStore, NestedBlocks, BareBlock, BareBlockFirst,
     CountingLoop, LoopNeverEntered, LoopWithNestedIf, NestedLoops, LoopWithCall,
     LoopForever, JumpForward, CallWithOpenBlocks, CallOnEmptyStore, CallEmptyBody,
     NestedCalls, CallDefaultReturn, CallShadowedResult, CallShadowedOnEmptyStore,
     ReturnFromLoop, Recursion, CompoundExample,
     PopExample, PopWithoutCommas, ArrayReads, BoolPlusInt, ReadAndParens,
     UnresolvedJump, UnresolvedCall, UnresolvedAmongResolved,
     DoubleAlloc, AllocOfOuterName, SetAfterBlock, CallBeforeAndAfter,
     ImplicitReturnAfterAlloc, ImplicitReturnShadowed, DefaultReturnShadowed,
     ReadUnbound, ReadAfterBlock, ReadAfterBlockOnEmptyStore, ReadAfterReturn,
     ReadAfterReturnOnEmptyStore, LoopForeverWithStore,
     SkipEmptyBody, SkipNestedBody, SkipInsideCall, UnclosedBlock, TwoUnclosedBlocks,
     AllocTwoLiterals, DanglingOperator, ExtraOperand, JumpsAroundLabel,
     LoopAllocOnEmptyStore, RetVariableFromBlock, SetInSubroutine}
    \cup PrintPrograms \cup CompoundPrograms \cup ComparisonPrograms
    \cup ConditionPrograms \cup MultiOperatorPrograms

(***************************************************************************)
(* Instruction arrays handed to Interpreter::init directly.  They use the   *)
(* operators and the statement that execute_one handles but generate_ast    *)
(* never emits (PopAccess, PopFrontAccess, Else).                           *)
(***************************************************************************)
WithExtent(token, extent) == [token EXCEPT !.body_extent = SomeIdx(extent)]

Access(v, operator) == Expression(<<v, Null>>, <<operator>>)
Lit123 == Array(<<IntegerLiteral(1), IntegerLiteral(2), IntegerLiteral(3)>>)

\* alloc a = [1,2,3]; alloc b = a.pop; print b; print a;
\* alloc s = "abc"; print s.popfront; print s; print a.popfront; print a; print s.pop; print s;
PopInstructions ==
    <<empty,
      with_args("Alloc", Variable("a"), SomeValue(Lit123)),
      with_args("Alloc", Variable("b"), SomeValue(Access(Variable("a"), "PopAccess"))),
      with_args("DebugPrintCall", Variable("b"), NoValue),
      with_args("DebugPrintCall", Variable("a"), NoValue),
      with_args("Alloc", Variable("s"), SomeValue(StringLiteral(<<"a", "b", "c">>))),
      with_args("DebugPrintCall", Access(Variable("s"), "PopFrontAccess"), NoValue),
      with_args("DebugPrintCall", Variable("s"), NoValue),
      with_args("DebugPrintCall", Access(Variable("a"), "PopFrontAccess"), NoValue),
      with_args("DebugPrintCall", Variable("a"), NoValue),
      with_args("DebugPrintCall", Access(Variable("s"), "PopAccess"), NoValue),
      with_args("DebugPrintCall", Variable("s"), NoValue),
      of_type("EOF")>>

\* alloc a = [[1,2],[3]]; print a|0|.pop; print a;
NestedPopInstructions ==
    <<empty,
      with_args("Alloc", Variable("a"),
                SomeValue(Array(<<Array(<<IntegerLiteral(1), IntegerLiteral(2)>>),
                                  Array(<<IntegerLiteral(3)>>)>>))),
      with_args("DebugPrintCall",
                Access(Expression(<<Variable("a"), IntegerLiteral(0)>>, <<"ArrayAccess">>),
                       "PopAccess"),
                NoValue),
      with_args("DebugPrintCall", Variable("a"), NoValue),
      of_type("EOF")>>

\* alloc a = 1; if a == n { print 1; } else { print 2; }
ElseInstructions(n) ==
    <<empty,
      with_args("Alloc", Variable("a"), SomeValue(IntegerLiteral(1))),
      with_args_and_body("If", "Equals", Variable("a"), SomeValue(IntegerLiteral(n)), 3),
      WithExtent(new_scope(4), 2),
      with_args("DebugPrintCall", IntegerLiteral(1), NoValue),
      of_type("BlockEnd"),
      of_type("Else"),
      WithExtent(new_scope(8), 2),
      with_args("DebugPrintCall", IntegerLiteral(2), NoValue),
      of_type("BlockEnd"),
      of_type("EOF")>>

\* alloc a = [1,3]; print a.pop - a.pop; print a;
OperandOrderInstructions ==
    <<empty,
      with_args("Alloc", Variable("a"),
                SomeValue(Array(<<IntegerLiteral(1), IntegerLiteral(3)>>))),
      with_args("DebugPrintCall",
                Expression(<<Access(Variable("a"), "PopAccess"),
                             Access(Variable("a"), "PopAccess")>>, <<"Sub">>),
                NoValue),
      with_args("DebugPrintCall", Variable("a"), NoValue),
      of_type("EOF")>>

Instructions ==
    {PopInstructions, NestedPopInstructions, OperandOrderInstructions,
     ElseInstructions(1), ElseInstructions(2)}

(***************************************************************************)
(* The program: parse a token stream and run it, or run an instruction      *)
(* array, under either build profile.                                       *)
(***************************************************************************)
\* interpreter.rs:44-57
Interpreter_init ==
    /\ halted = FALSE
    /\ inst_ptr = 0
    /\ memory_cells = <<>>
    /\ variable_map = EmptyMap
    /\ mem_scope_start_stack = <<0>>
    /\ loop_stack = <<>>
    /\ else_flag = FALSE
    /\ return_stack = <<>>
    /\ return_value = NoType

Init ==
    /\ overflow_checks \in BOOLEAN
    /\ astgen = ASTGenerator_init
    /\ \/ tokens \in Programs /\ pc = "parse" /\ ast_tokens = <<>>
       \/ tokens = <<>> /\ pc = "run" /\ ast_tokens \in Instructions
    /\ Interpreter_init
    /\ output = <<>>
    /\ last = NoStep
    /\ open_log = <<>>
    /\ call_log = <<>>
    /\ eval = NoEval

Next ==
    \/ GenerateAst
    \/ ExecEOF
    \/ ExecBlock
    \/ ExecBlockEnd
    \/ ExecSubroutineCall
    \/ ExecSubroutineReturn
    \/ ExecSubroutineDefine
    \/ ExecAlloc
    \/ ExecSet
    \/ ExecDebugPrintCall
    \/ ExecIf
    \/ ExecElse
    \/ ExecWhile
    \/ ExecOther

Spec == Init /\ [][Next]_vars

\* the runs followed for progress: the programs and instruction arrays
\* without the two families of straight-line arithmetic programs, the
\* programs whose returns unwind several scopes and the pop arrays
InitFair ==
    /\ Init
    /\ tokens \notin PrintPrograms \cup CompoundPrograms
    /\ tokens \notin {CallWithOpenBlocks, NestedCalls, CallShadowedResult, ReturnFromLoop}
    /\ ast_tokens \in {<<>>, ElseInstructions(1), ElseInstructions(2)}

\* main.rs:60-63: `while !interpreter.halted { interpreter.execute_one(); }`
\* keeps calling execute_one for as long as the interpreter has not halted
SpecFair == InitFair /\ [][Next]_vars /\ WF_vars(Running /\ Next)

(***************************************************************************)
(* The operator evaluator on its own: operate_on_types applied once to an   *)
(* operand pair.  The left operand is a literal (no address) or the value   *)
(* read from variable `a` (cell 1 of a two-cell store).                     *)
(***************************************************************************)
OperandTypes ==
    {TInteger(0), TInteger(1), TInteger(2), TInteger(U32Modulus - 1),
     TString(<<>>), TString(<<"a", "b">>),
     TBool(TRUE), TBool(FALSE),
     TArray(<<>>), TArray(<<TInteger(1), TInteger(2)>>),
     TArray(<<TArray(<<TInteger(1), TInteger(2)>>), TArray(<<TInteger(3)>>)>>),
     TNull}

InitOp ==
    /\ overflow_checks \in BOOLEAN
    /\ pc = "operate"
    /\ \E f \in OperandTypes, g \in OperandTypes, operator \in Operators,
          from_variable \in BOOLEAN :
          /\ memory_cells = <<TInteger(7), f>>
          /\ eval = [first |-> IF from_variable THEN from_with_addr(f, SomeAddr(1))
                               ELSE from(f),
                     second |-> from(g), operator |-> operator,
                     done |-> FALSE, ok |-> TRUE, result |-> from(TNull)]
    /\ variable_map = [n \in {"a", "b"} |-> IF n = "a" THEN 1 ELSE 0]
    /\ tokens = <<>>
    /\ astgen = ASTGenerator_init
    /\ ast_tokens = <<>>
    /\ halted = FALSE
    /\ inst_ptr = 0
    /\ mem_scope_start_stack = <<0>>
    /\ loop_stack = <<>>
    /\ else_flag = FALSE
    /\ return_stack = <<>>
    /\ return_value = NoType
    /\ output = <<>>
    /\ last = NoStep
    /\ open_log = <<>>
    /\ call_log = <<>>

\* one call of operate_on_types (interpreter.rs:150)
Operate ==
    /\ pc = "operate"
    /\ LET r == operate_on_types(eval.first, eval.second, eval.operator,
                                 overflow_checks, memory_cells)
       IN /\ eval' = [eval EXCEPT !.done = TRUE, !.ok = r.ok, !.result = r.w]
          /\ memory_cells' = r.mem
    /\ pc' = "operated"
    /\ UNCHANGED <<tokens, astgen, overflow_checks, ast_tokens, halted, inst_ptr,
                   variable_map, mem_scope_start_stack, loop_stack, else_flag,
                   return_stack, return_value, output, last, open_log, call_log>>

NextOp == Operate

SpecOp == InitOp /\ [][NextOp]_vars

(***************************************************************************)
(* Properties.                                                              *)
(***************************************************************************)
\* the instruction the most recent step executed
last_inst == At(ast_tokens, last.at)

HasExtentAt(i) == i < Len(ast_tokens) /\ At(ast_tokens, i).body_extent.some

Stepped(kind) == pc \in {"run", "halted"} /\ last.kind = kind /\ last.ok

\* C1: right after a BlockEnd, the store length and the contents of the name
\* map equal their values right before the Block that this BlockEnd closes,
\* for every store length at block entry (0 included) and every body.
C1_ScopeTruncation ==
    (Stepped("BlockEnd") /\ last.matched)
        => /\ Len(memory_cells) = Len(last.ref.memory_cells)
           /\ variable_map = last.ref.variable_map

\* C2: a While step whose condition is true continues at the body's Block and
\* one whose condition is false continues at the instruction after the body's
\* BlockEnd; the BlockEnd that closes a While's body continues at that While,
\* whatever the body contains (nested blocks, subroutine calls).  So the body
\* runs once per true evaluation: the loop `while i < 2 { call f; i += 1; }`
\* leaves i = 2.
C2_LoopBackEdge ==
    /\ (Stepped("While") /\ HasExtentAt(last.at + 1))
           => inst_ptr = IF last.taken THEN last.at + 1
                         ELSE last.at + At(ast_tokens, last.at + 1).body_extent.at + 2
    /\ (/\ Stepped("BlockEnd") /\ last.matched
        /\ last.ref.inst_ptr > 0
        /\ At(ast_tokens, last.ref.inst_ptr - 1).t_type = "While")
           => inst_ptr = last.ref.inst_ptr - 1
    /\ (tokens = LoopWithCall /\ pc = "halted") => output = <<TInteger(2)>>

C4_ReturnUnwinding ==
    (Stepped("SubroutineReturn") /\ last.matched)
        => /\ inst_ptr = last.ref.inst_ptr + 1
           /\ Len(memory_cells) = Len(last.ref.memory_cells)
           /\ DOMAIN variable_map = DOMAIN last.ref.variable_map
           /\ mem_scope_start_stack = last.ref.mem_scope_start_stack

SetReturnIdxs ==
    {i \in 0 .. Len(ast_tokens) - 1 :
        /\ At(ast_tokens, i).t_type = "Set"
        /\ At(ast_tokens, i).arg2 = SomeValue(Return)}

DirectIdxs == {k \in 1 .. Len(tokens) - 1 : tokens[k].token = "SubroutineDirect"}

\* C5: for `call F -> out` the parser emits `Set out = Return` directly after
\* the call instruction (and emits it nowhere else); the return address that
\* the call pushes, and at which the return resumes, is the instruction after
\* the call; the return stores the value its `ret` expression has in the state
\* in which the `ret` executes; and the Set, once executed, has bound `out` to
\* a cell holding that stored value.
C5_CallResultPlumbing ==
    /\ (pc \in {"run", "halted"} /\ tokens # <<>>)
           => /\ Cardinality(SetReturnIdxs) = Cardinality(DirectIdxs)
              /\ \A i \in SetReturnIdxs :
                    /\ i > 0
                    /\ At(ast_tokens, i - 1).t_type = "SubroutineCall"
                    /\ \E k \in DirectIdxs :
                          At(ast_tokens, i).arg1 = SomeValue(Variable(tokens[k + 1].name))
    /\ Stepped("SubroutineCall")
           => /\ Len(return_stack) > 0
              /\ Last(return_stack)[1] = last.at + 1
    /\ (Stepped("SubroutineReturn") /\ last.matched)
           => /\ inst_ptr = last.ref.inst_ptr + 1
              /\ return_stack = last.ref.return_stack
              /\ return_value =
                     SomeType(resolve_argument_value(last_inst.arg1.v, last.pre.variable_map,
                                  last.pre.return_value, overflow_checks,
                                  last.pre.memory_cells).w.value)
    /\ (/\ pc \in {"run", "halted", "panic"}
        /\ last.kind = "Set"
        /\ last.at \in SetReturnIdxs)
           => /\ last.ok
              /\ last.pre.return_value.some
              /\ last_inst.arg1.v.name \in DOMAIN variable_map
              /\ variable_map[last_inst.arg1.v.name] < Len(memory_cells)
              /\ At(memory_cells, variable_map[last_inst.arg1.v.name])
                     = last.pre.return_value.v

InSubroutineBody(i) ==
    \E d \in 0 .. Len(ast_tokens) - 1 :
        /\ At(ast_tokens, d).t_type = "SubroutineDefine"
        /\ HasExtentAt(d + 1)
        /\ d < i
        /\ i <= d + 1 + At(ast_tokens, d + 1).body_extent.at

\* C6: a SubroutineDefine reached by straight-line flow continues at the
\* instruction after its body's BlockEnd, and whenever the instruction pointer
\* is inside a subroutine's body the return stack is non-empty.
C6_BodyEnteredOnlyByCall ==
    /\ (Stepped("SubroutineDefine") /\ HasExtentAt(last.at + 1))
           => inst_ptr = last.at + At(ast_tokens, last.at + 1).body_extent.at + 2
    /\ (pc = "run" /\ InSubroutineBody(inst_ptr)) => Len(return_stack) > 0

\* the value of the n-operand expression e (n = 2 or 3) in the interpreter
\* state `pre`, written out as ((v0 o1 v1) o2 v2): every operand resolved in
\* order, every operator applied to the result so far and the next operand
Nested(e, pre) ==
    LET r0 == resolve_argument_value(e.values[1], pre.variable_map, pre.return_value,
                                     overflow_checks, pre.memory_cells)
        r1 == resolve_argument_value(e.values[2], pre.variable_map, pre.return_value,
                                     overflow_checks, r0.mem)
        a1 == operate_on_types(r0.w, r1.w, e.operators[1], overflow_checks, r1.mem)
        r2 == resolve_argument_value(e.values[3], pre.variable_map, pre.return_value,
                                     overflow_checks, a1.mem)
        a2 == operate_on_types(a1.w, r2.w, e.operators[2], overflow_checks, r2.mem)
    IN IF Len(e.values) = 2
       THEN [ok |-> r0.ok /\ r1.ok /\ a1.ok, w |-> a1.w, mem |-> a1.mem]
       ELSE [ok |-> r0.ok /\ r1.ok /\ a1.ok /\ r2.ok /\ a2.ok, w |-> a2.w, mem |-> a2.mem]

IsFold(v) ==
    /\ v.kind = "Expression"
    /\ Len(v.values) \in {2, 3}
    /\ Len(v.operators) = Len(v.values) - 1

\* print 2 + 3 - 1;
TwoPlusThreeMinusOne ==
    Program(<<sPrint(eBin(eBin(eInt(2), "Plus", eInt(3)), "Minus", eInt(1)))>>)

\* C7: an Expression with operands v0..vn and operators o1..on resolves to
\* (((v0 o1 v1) o2 v2) ... on vn), the operands resolved in order, with no
\* precedence: a print of such an expression prints exactly that value (and
\* aborts exactly when a step of that nesting aborts); `print 2 + 3 - 1;`
\* outputs 4, and `print a.pop - a.pop;` on a = [1,3] outputs 3 - 1 = 2.
C7_LeftToRight ==
    /\ (/\ pc \in {"run", "halted", "panic"}
        /\ last.kind = "DebugPrintCall"
        /\ last_inst.arg1.some
        /\ IsFold(last_inst.arg1.v))
           => LET n == Nested(last_inst.arg1.v, last.pre)
              IN /\ last.ok = n.ok
                 /\ last.ok => /\ last.val = n.w.value
                               /\ output = Append(last.pre.output, n.w.value)
                               /\ memory_cells = n.mem
    /\ (tokens = TwoPlusThreeMinusOne /\ pc # "parse")
           => /\ pc # "panic"
              /\ pc = "halted" => output = <<TInteger(4)>>
    /\ (ast_tokens = OperandOrderInstructions /\ pc = "halted")
           => output = <<TInteger(2), TArray(<<>>)>>

\* `print 2 + 3 - 1;` has printed 4
C7_Witness ==
    /\ tokens = TwoPlusThreeMinusOne
    /\ last.kind = "DebugPrintCall" /\ last.ok
    /\ IsFold(last_inst.arg1.v)
    /\ output = <<TInteger(4)>>

\* a Set of the shape the parser emits for `NAME += e` and `NAME -= e`:
\* NAME = NAME op v1 o2 v2 ..., executed with NAME bound to an Integer and
\* every operand of e an Integer
IsCompound(inst, pre) ==
    /\ inst.t_type = "Set"
    /\ inst.arg1.some /\ inst.arg1.v.kind = "Variable"
    /\ inst.arg2.some /\ inst.arg2.v.kind = "Expression"
    /\ Len(inst.arg2.v.values) >= 2
    /\ Len(inst.arg2.v.operators) = Len(inst.arg2.v.values) - 1
    /\ inst.arg2.v.values[1] = Variable(inst.arg1.v.name)
    /\ \A k \in DOMAIN inst.arg2.v.operators : inst.arg2.v.operators[k] \in {"Add", "Sub"}
    /\ inst.arg1.v.name \in DOMAIN pre.variable_map
    /\ pre.variable_map[inst.arg1.v.name] < Len(pre.memory_cells)
    /\ At(pre.memory_cells, pre.variable_map[inst.arg1.v.name]).tag = "Integer"
    /\ \A k \in 2 .. Len(inst.arg2.v.values) :
          LET r == resolve_argument_value(inst.arg2.v.values[k], pre.variable_map,
                                          pre.return_value, overflow_checks,
                                          pre.memory_cells)
          IN r.ok /\ r.w.value.tag = "Integer"

\* the integer that operand k (k >= 2) of the compound Set stands for
OperandInt(inst, pre, k) ==
    resolve_argument_value(inst.arg2.v.values[k], pre.variable_map, pre.return_value,
                           overflow_checks, pre.memory_cells).w.value.i

\* e, the right-hand side of `NAME op= e`, evaluated on its own
RightHandSide(inst, pre) ==
    resolve_argument_value(
        IF Len(inst.arg2.v.values) = 2 THEN inst.arg2.v.values[2]
        ELSE Expression(Tail1(inst.arg2.v.values), Tail1(inst.arg2.v.operators)),
        pre.variable_map, pre.return_value, overflow_checks, pre.memory_cells)

\* the unbounded integer n op v1 o2 v2 ... ok vk read left to right
Partial(inst, pre, k) ==
    LET sum[j \in 1 .. k] ==
            IF j = 1 THEN At(pre.memory_cells, pre.variable_map[inst.arg1.v.name]).i
            ELSE IF inst.arg2.v.operators[j - 1] = "Add"
                 THEN sum[j - 1] + OperandInt(inst, pre, j)
                 ELSE sum[j - 1] - OperandInt(inst, pre, j)
    IN sum[k]

InU32(x) == 0 <= x /\ x < U32Modulus

\* the same cell, the same store length, every other cell unchanged
OnlyCellChanged(name, pre) ==
    /\ variable_map = pre.variable_map
    /\ Len(memory_cells) = Len(pre.memory_cells)
    /\ \A a \in 0 .. Len(memory_cells) - 1 :
          a # variable_map[name] => At(memory_cells, a) = At(pre.memory_cells, a)

\* C8 as stated: with NAME bound to an Integer n, `NAME += e` (`NAME -= e`)
\* leaves NAME bound to the same cell, now holding n + e (n - e), and changes
\* neither the store length nor any other cell.
C8_AsStated ==
    (Stepped("Set") /\ IsCompound(last_inst, last.pre))
        => LET name == last_inst.arg1.v.name
               n == At(last.pre.memory_cells, last.pre.variable_map[name]).i
               e == RightHandSide(last_inst, last.pre)
           IN /\ OnlyCellChanged(name, last.pre)
              /\ e.ok
              /\ At(memory_cells, variable_map[name])
                     = TInteger(IF last_inst.arg2.v.operators[1] = "Add"
                                THEN n + e.w.value.i ELSE n - e.w.value.i)

\* C8: with NAME bound to an Integer n, `NAME += e` (`NAME -= e`) is executed
\* as `set NAME = NAME + e` (`NAME - e`) read left to right with the operator
\* spliced in front of e's tokens: for e = v1 o2 v2 ... the cell of NAME ends
\* up holding ((n op v1) o2 v2) ..., which for a single operand e is n + e
\* (n - e).  An intermediate result outside the u32 range aborts the run in a
\* build with overflow checks and wraps modulo 2^32 in a build without.  NAME
\* stays bound to the same cell; the store length and every other cell are
\* unchanged.  `alloc x = 5; x += 3; print x;` outputs 8.
C8_CompoundAssignment ==
    /\ (/\ pc \in {"run", "halted", "panic"}
        /\ last.kind = "Set"
        /\ IsCompound(last_inst, last.pre))
           => LET name == last_inst.arg1.v.name
                  m == Len(last_inst.arg2.v.values)
                  in_range == \A k \in 1 .. m : InU32(Partial(last_inst, last.pre, k))
              IN /\ last.ok = (in_range \/ ~overflow_checks)
                 /\ last.ok =>
                       /\ OnlyCellChanged(name, last.pre)
                       /\ At(memory_cells, variable_map[name])
                              = TInteger((Partial(last_inst, last.pre, m) + m * U32Modulus)
                                         % U32Modulus)
    /\ (tokens = CompoundExample /\ pc = "halted") => output = <<TInteger(8)>>

\* `alloc x = 5; x += 3;` has left 8 in the cell of x
C8_Witness ==
    /\ tokens = CompoundExample
    /\ Stepped("Set") /\ IsCompound(last_inst, last.pre)
    /\ memory_cells = <<TInteger(8)>>

\* C9: PopAccess (PopFrontAccess) on a variable holding an array or a string
\* returns its last (first) element and replaces the variable's own cell with
\* the collection minus that element; the source program
\* `alloc a = [1,2,3]; alloc b = a.pop; print b; print a;` runs to its end and
\* outputs 3 and then [1,2].
C9_PopInPlace ==
    /\ (ast_tokens = PopInstructions /\ pc = "halted")
           => output = <<TInteger(3), TArray(<<TInteger(1), TInteger(2)>>),
                         TString(<<"a">>), TString(<<"b", "c">>),
                         TInteger(1), TArray(<<TInteger(2)>>),
                         TString(<<"c">>), TString(<<"b">>)>>
    /\ (tokens = PopExample /\ pc # "parse")
           => /\ pc # "panic"
              /\ pc = "halted"
                    => output = <<TInteger(3), TArray(<<TInteger(1), TInteger(2)>>)>>

\* the (left operand, right operand, operator) triples that the type-pair
\* table defines
TypePairTable ==
    ({<<"Bool", "Bool">>} \X Comparisons)
    \cup ({<<"Integer", "Integer">>} \X ({"Add", "Sub"} \cup Comparisons))
    \cup ({<<"Integer", "Bool">>} \X {"Equals", "NotEquals"})
    \cup ({<<"String", "Integer">>} \X {"Add", "ArrayAccess"})
    \cup ({<<"String", "Bool">>} \X {"Add", "Equals", "NotEquals"})
    \cup ({<<"String", "String">>} \X ({"Add"} \cup Comparisons))
    \cup ({<<"String", "Null">>} \X {"LenAccess", "PopAccess", "PopFrontAccess"})
    \cup ({<<"Array", "Integer">>} \X {"Add", "ArrayAccess"})
    \cup ({<<"Array", "Bool">>, <<"Array", "String">>} \X {"Add"})
    \cup ({<<"Array", "Null">>} \X {"LenAccess", "PopAccess", "PopFrontAccess"})

EvalTriple == <<<<eval.first.value.tag, eval.second.value.tag>>, eval.operator>>

\* C10: an operator applied to an operand pair that the type-pair table does
\* not define is fatal: it produces no value and writes nothing to the store;
\* in particular a Bool left operand with Add (`true + 1`) is fatal.
C10_UndefinedPairIsFatal ==
    (eval.done /\ EvalTriple \notin TypePairTable)
        => /\ ~eval.ok
           /\ memory_cells = <<TInteger(7), eval.first.value>>

\* `true + 1` has been evaluated and was fatal
C10_Witness ==
    /\ eval.done
    /\ eval.first.value = TBool(TRUE)
    /\ eval.second.value = TInteger(1)
    /\ eval.operator = "Add"
    /\ ~eval.ok

\* the names a token stream refers to with `kind name` (kind: Jump, Label,
\* SubroutineCall, SubroutineDefine)
NamesAfter(toks, kind) ==
    {toks[i + 1].name : i \in {k \in 1 .. Len(toks) - 1 :
                                  toks[k].token = kind /\ toks[k + 1].token = "Variable"}}

\* some `jump L` without `: L`, or some `call F` without `sub F`
HasUnresolvedReference(toks) ==
    \/ NamesAfter(toks, "Jump") \ NamesAfter(toks, "Label") # {}
    \/ NamesAfter(toks, "SubroutineCall") \ NamesAfter(toks, "SubroutineDefine") # {}

Parsing == pc = "parse"

\* the generator after the statement loop, before the references are resolved
AfterStatementLoop == parse_loop(insert_ast_token_at_end(ASTGenerator_init, empty), tokens)

\* C11: parsing a program in which some `jump L` has no `: L`, or some
\* `call F` has no `sub F`, aborts, and after a successful parse no Jump and
\* no SubroutineCall instruction of the generated AST has target None.
C11_UnresolvedIsFatal ==
    (~Parsing /\ tokens # <<>>)
        => /\ HasUnresolvedReference(tokens) => (~astgen.ok /\ ast_tokens = <<>>)
           /\ astgen.ok =>
                 \A i \in 1 .. Len(astgen.generated_ast) :
                    astgen.generated_ast[i].t_type \in {"Jump", "SubroutineCall"}
                        => astgen.generated_ast[i].target.some

\* a call of an undefined subroutine among resolved jumps and calls: the
\* statement loop succeeded and the resolution pass aborted
C11_Witness ==
    /\ pc = "panic" /\ last.kind = "parse"
    /\ tokens = UnresolvedAmongResolved
    /\ AfterStatementLoop.ok
    /\ ~astgen.ok

\* the value an Alloc or Set that was just attempted resolved for its second
\* argument, from the interpreter before the step
Assigned ==
    resolve_argument_value(last_inst.arg2.v, last.pre.variable_map, last.pre.return_value,
                           overflow_checks, last.pre.memory_cells)

Attempted(kind) ==
    /\ pc \in {"run", "halted", "panic"} /\ last.kind = kind
    /\ IsNamed(last_inst) /\ Assigned.ok

BoundBefore(name) == name \in DOMAIN last.pre.variable_map

\* the store and the name map are those the step found
NothingBound ==
    /\ memory_cells = last.pre.memory_cells
    /\ variable_map = last.pre.variable_map

\* the step wrote value into the cell the name was bound to, and nothing else
\* of the name map or of the store length changed
Overwritten(name, value) ==
    /\ last.ok
    /\ variable_map = last.pre.variable_map
    /\ Len(memory_cells) = Len(last.pre.memory_cells)
    /\ variable_map[name] < Len(memory_cells)
    /\ At(memory_cells, variable_map[name]) = value

\* the step appended one cell holding value and bound the name to it
Appended(name, value, mem) ==
    /\ last.ok
    /\ memory_cells = Append(mem, value)
    /\ Len(memory_cells) = Len(last.pre.memory_cells) + 1
    /\ variable_map = Bind(last.pre.variable_map, name, Len(last.pre.memory_cells))

\* C12: an Alloc of a name that is bound in the name map is fatal and binds
\* nothing; a Set of a bound name overwrites that name's cell and leaves the
\* store length alone; a Set of an unbound name appends exactly one cell and
\* binds the name to it.
C12_AllocAndSet ==
    /\ (Attempted("Alloc") /\ BoundBefore(last_inst.arg1.v.name))
           => (~last.ok /\ pc = "panic" /\ NothingBound)
    /\ (Attempted("Set") /\ BoundBefore(last_inst.arg1.v.name))
           => Overwritten(last_inst.arg1.v.name, Assigned.w.value)
    /\ (Attempted("Set") /\ ~BoundBefore(last_inst.arg1.v.name))
           => Appended(last_inst.arg1.v.name, Assigned.w.value, Assigned.mem)

\* the positions (1-based) of the tokens of a kind, and of the instructions
\* of a statement type; the parser emits exactly one SubroutineDefine
\* (SubroutineCall) instruction per `sub` (`call`) token, in source order
TokenPositions(kind) == {k \in 1 .. Len(tokens) : tokens[k].token = kind}
InstPositions(t_type) ==
    {i \in 1 .. Len(astgen.generated_ast) : astgen.generated_ast[i].t_type = t_type}
Ordinal(positions, p) == Cardinality({q \in positions : q <= p})

\* the 0-based index of the instruction emitted for the token at position k
InstOfToken(k, t_type) ==
    (CHOOSE i \in InstPositions(t_type) :
        Ordinal(InstPositions(t_type), i) = Ordinal(TokenPositions(tokens[k].token), k)) - 1

\* the position of the `sub F` token
DefinitionOf(F) ==
    CHOOSE k \in TokenPositions("SubroutineDefine") : tokens[k + 1].name = F

\* the index of F's first body instruction: the one right after F's
\* SubroutineDefine, the Block that opens the body
FirstBodyIdx(F) == InstOfToken(DefinitionOf(F), "SubroutineDefine") + 1

ParsedOk == ~Parsing /\ tokens # <<>> /\ astgen.ok

\* C13: after parsing, every SubroutineCall to F, before or after `sub F`,
\* has as target the index of F's first body instruction, and the subroutine
\* table maps F to that index.
C13_CallTargets ==
    ParsedOk =>
        /\ \A k \in TokenPositions("SubroutineCall") :
              /\ At(ast_tokens, InstOfToken(k, "SubroutineCall")).target
                    = SomeIdx(FirstBodyIdx(tokens[k + 1].name))
              /\ At(ast_tokens, FirstBodyIdx(tokens[k + 1].name)).t_type = "Block"
        /\ \A F \in NamesAfter(tokens, "SubroutineDefine") :
              /\ F \in DOMAIN astgen.subroutine_table
              /\ astgen.subroutine_table[F] = FirstBodyIdx(F)

\* a parsed program that calls f both before and after `sub f`
C13_Witness ==
    /\ ParsedOk /\ last.kind = "parse"
    /\ \E k1, k2 \in TokenPositions("SubroutineCall") :
          /\ tokens[k1 + 1].name = tokens[k2 + 1].name
          /\ k1 < DefinitionOf(tokens[k1 + 1].name)
          /\ k2 > DefinitionOf(tokens[k2 + 1].name)
          /\ At(ast_tokens, InstOfToken(k1, "SubroutineCall")).target
                = At(ast_tokens, InstOfToken(k2, "SubroutineCall")).target

\* C14: each of the six comparison tokens ==, !=, >, <, >=, <= appends its
\* operator to the operator list of the expression it occurs in, and none is
\* rejected: `if i <op> 1 { ... }` becomes an If with that operator and
\* `print i <op> 2;` prints the expression (i, 2) with that operator.
C14_SixComparisonTokens ==
    \A op \in Comparisons :
        (~Parsing /\ tokens = ComparisonProgram(op))
            => /\ astgen.ok
               /\ resolve_any_value(eBin(eVar("i"), op, eInt(2)))
                     = Parsed(Expression(<<Variable("i"), IntegerLiteral(2)>>, <<op>>))
               /\ At(ast_tokens, 2).t_type = "If"
               /\ At(ast_tokens, 2).op = op
               /\ At(ast_tokens, 6).arg1
                     = SomeValue(Expression(<<Variable("i"), IntegerLiteral(2)>>, <<op>>))

\* the condition instruction (index 2) of the explicit form of a program
ExplicitCondition(kind, e) ==
    At(generate_ast(ConditionProgram(kind, e, "explicit")).generated_ast, 2)

\* what the explicit form's instruction decides in the interpreter the last
\* step started from
ExplicitDecision(kind, e) ==
    condition(ExplicitCondition(kind, e), last.pre.variable_map, last.pre.return_value,
              overflow_checks, last.pre.memory_cells)

ConditionAttempted(kind) ==
    pc \in {"run", "halted", "panic"} /\ last.kind = kind /\ last.at = 2

\* C15: an `if` or `while` on a single operand is parsed as If/While(Equals)
\* with second operand BoolLiteral(true), and for every value of the operand
\* it decides as the explicit `<operand> == true` form does: both are fatal,
\* or both enter the body, or both skip it.
C15_ImplicitBool ==
    \A kind \in ConditionKinds, e \in ConditionOperands :
        (~Parsing /\ tokens = ConditionProgram(kind, e, "implicit"))
            => /\ astgen.ok
               /\ At(ast_tokens, 2).t_type = kind
               /\ At(ast_tokens, 2).op = "Equals"
               /\ At(ast_tokens, 2).arg1 = SomeValue(Variable("f"))
               /\ At(ast_tokens, 2).arg2 = SomeValue(BoolLiteral(TRUE))
               /\ ConditionAttempted(kind)
                     => /\ last.ok = ExplicitDecision(kind, e).ok
                        /\ last.ok => last.taken = is_true(ExplicitDecision(kind, e))

\* an implicit `while f` entered with f holding an Integer
C15_Witness ==
    /\ tokens = ConditionProgram("While", eInt(1), "implicit")
    /\ Stepped("While") /\ last.at = 2 /\ last.taken
    /\ At(last.pre.memory_cells, 0) = TInteger(1)

\* every `ret` of the program is written without an expression (a body that
\* ends without a `ret` has no token for its return)
OnlyDefaultReturns ==
    /\ tokens # <<>>
    /\ \A k \in TokenPositions("SubroutineReturn") : tokens[k + 1].token = "LineEnd"

\* the BlockEnd at index i closes the body of a subroutine
ClosesSubroutine(i) ==
    /\ At(ast_tokens, i).t_type = "BlockEnd"
    /\ \E d \in 0 .. i - 1 :
          /\ At(ast_tokens, d).t_type = "SubroutineDefine"
          /\ HasExtentAt(d + 1)
          /\ d + 1 + At(ast_tokens, d + 1).body_extent.at = i

\* C16: a `ret` without an expression and the return at the end of a body
\* that has no `ret` both return Bool(false): every body ends with a return
\* instruction, each such return carries BoolLiteral(false) and stores
\* Bool(false), and the Set of `call F -> out`, once attempted, has bound
\* `out` to a cell holding Bool(false).
C16_DefaultReturnValue ==
    (~Parsing /\ OnlyDefaultReturns /\ astgen.ok)
        => /\ \A i \in 1 .. Len(ast_tokens) - 1 :
                 /\ ClosesSubroutine(i) => At(ast_tokens, i - 1).t_type = "SubroutineReturn"
                 /\ At(ast_tokens, i).t_type = "SubroutineReturn"
                       => At(ast_tokens, i).arg1 = SomeValue(BoolLiteral(FALSE))
           /\ Stepped("SubroutineReturn") => return_value = SomeType(TBool(FALSE))
           /\ (/\ pc \in {"run", "halted", "panic"}
               /\ last.kind = "Set"
               /\ last.at \in SetReturnIdxs)
                  => /\ last.ok
                     /\ last_inst.arg1.v.name \in DOMAIN variable_map
                     /\ variable_map[last_inst.arg1.v.name] < Len(memory_cells)
                     /\ At(memory_cells, variable_map[last_inst.arg1.v.name]) = TBool(FALSE)

\* the Block at index b encloses the instruction at index i
Encloses(b, i) ==
    /\ At(ast_tokens, b).t_type = "Block" /\ HasExtentAt(b)
    /\ b < i /\ i < b + At(ast_tokens, b).body_extent.at

BlockIdxs == {b \in 0 .. Len(ast_tokens) - 1 : At(ast_tokens, b).t_type = "Block"}

\* the instructions that can bind a name: its Allocs and its Sets
BindIdxs(name) ==
    {i \in 0 .. Len(ast_tokens) - 1 :
        /\ At(ast_tokens, i).t_type \in {"Alloc", "Set"}
        /\ At(ast_tokens, i).arg1 = SomeValue(Variable(name))}

\* every instruction that binds the name lies inside some block or
\* subroutine body, and the instruction at index r lies inside none
OutOfScopeAt(name, r) ==
    /\ BindIdxs(name) # {}
    /\ \A i \in BindIdxs(name) : \E b \in BlockIdxs : Encloses(b, i)
    /\ \A b \in BlockIdxs : ~Encloses(b, r)

\* a print of a plain variable was attempted
ReadAttempted ==
    /\ pc \in {"run", "halted", "panic"} /\ last.kind = "DebugPrintCall"
    /\ last_inst.arg1.some /\ last_inst.arg1.v.kind = "Variable"

\* C17: resolving a Variable whose name is not in the name map is fatal, and
\* a read outside every block of a name that is bound only inside blocks or
\* subroutine bodies (so after their BlockEnd or return) aborts the run
\* instead of yielding a value.
C17_UnboundReadIsFatal ==
    /\ (ReadAttempted /\ last_inst.arg1.v.name \notin DOMAIN last.pre.variable_map)
           => (~last.ok /\ pc = "panic")
    /\ (ReadAttempted /\ tokens # <<>> /\ OutOfScopeAt(last_inst.arg1.v.name, last.at))
           => (~last.ok /\ pc = "panic")

\* the element count of an array, the character count of a string
Count(v) == IF v.tag = "Array" THEN Len(v.a) ELSE Len(v.s)

\* ArrayAccess was applied to an array or a string with an Integer index
IndexedAccess ==
    /\ eval.done /\ eval.operator = "ArrayAccess"
    /\ eval.first.value.tag \in {"Array", "String"}
    /\ eval.second.value.tag = "Integer"

\* C18: ArrayAccess with an Integer index that is >= the array's element
\* count (or the string's character count) is fatal: it produces no value
\* and changes no store cell.
C18_IndexOutOfRangeIsFatal ==
    (IndexedAccess /\ eval.second.value.i >= Count(eval.first.value))
        => /\ ~eval.ok
           /\ memory_cells = <<TInteger(7), eval.first.value>>

\* the two-element array read from variable `a` was indexed with 2
C18_Witness ==
    /\ IndexedAccess /\ pc = "operated"
    /\ eval.first = from_with_addr(TArray(<<TInteger(1), TInteger(2)>>), SomeAddr(1))
    /\ eval.second.value = TInteger(2)
    /\ ~eval.ok

\* the run has come to a Block or SubroutineCall that the bounds MaxScopes
\* and MaxReturnDepth do not let the model follow
AtBound ==
    \/ Executing("Block") /\ Len(mem_scope_start_stack) >= MaxScopes
    \/ /\ Executing("SubroutineCall")
       /\ (Len(return_stack) >= MaxReturnDepth \/ Len(mem_scope_start_stack) >= MaxScopes)

\* halted changes only from false to true, and only in a step that executes EOF
HaltStep == (halted' # halted) => (~halted /\ halted' /\ Executing("EOF"))

\* a step taken with halted true changes nothing of the interpreter
HaltedIsFinal ==
    halted => UNCHANGED <<inst_ptr, memory_cells, variable_map, mem_scope_start_stack,
                          loop_stack, return_stack>>

Ended == halted \/ pc = "panic"

\* C19 as stated: halted is false initially, becomes true only by executing
\* EOF, nothing changes once it is true, and every run reaches the halted
\* state or aborts on a fatal error (runs that the bounds cut short, and the
\* return whose invalidation loop does not end, are not held against it).
C19_AsStated ==
    /\ ~halted
    /\ [][HaltStep /\ HaltedIsFinal]_vars
    /\ (pc = "run") ~> (Ended \/ AtBound \/ pc = "hang")

\* C19: halted is false initially, becomes true only by executing an EOF
\* instruction, and once it is true no step changes the instruction pointer,
\* the store, the name map or the control stacks; a run stops only in that
\* state or by aborting: as long as it has done neither, another step is taken.
C19_HaltOnlyAtEOF ==
    /\ ~halted
    /\ [][HaltStep /\ HaltedIsFinal]_vars
    /\ []((pc = "run" /\ ~Ended /\ ~AtBound) => ENABLED Next)
    /\ [](halted <=> pc = "halted")

\* a run that halted by executing its EOF instruction after printing
C19_Witness ==
    /\ halted /\ pc = "halted"
    /\ last.kind = "EOF" /\ current_inst.t_type = "EOF"
    /\ Len(output) > 0

ForeverPrograms == {LoopForever, LoopForeverWithStore}

InCycle == tokens \in ForeverPrograms /\ last.kind \in {"While", "Block", "BlockEnd"}

NextInCycle(kind) ==
    CASE kind = "While" -> "Block"
      [] kind = "Block" -> "BlockEnd"
      [] kind = "BlockEnd" -> "While"

RECURSIVE ScanToClose(_, _)
ScanToClose(j, open) ==
    IF j >= Len(ast_tokens) THEN Len(ast_tokens)
    ELSE IF At(ast_tokens, j).t_type = "Block" THEN ScanToClose(j + 1, open + 1)
    ELSE IF At(ast_tokens, j).t_type = "BlockEnd"
    THEN IF open = 1 THEN j ELSE ScanToClose(j + 1, open - 1)
    ELSE ScanToClose(j + 1, open)

MatchingBlockEnd(b) == ScanToClose(b, 0)

\* the most recent step was an If or While whose condition was not Bool(true)
ConditionFalse == last.kind \in {"If", "While"} /\ Stepped(last.kind) /\ ~last.taken

\* the blocks strictly inside the body of the Block at index b
BlocksInside(b) ==
    {j \in (b + 1) .. (MatchingBlockEnd(b) - 1) : At(ast_tokens, j).t_type = "Block"}

\* C21: when the condition of an If or While is not Bool(true), the
\* instruction pointer moves to the instruction right after the BlockEnd that
\* matches the Block following the If/While, which is the If/While's index
\* plus that Block's body_extent plus 2, whatever the body holds (nothing,
\* nested blocks), and the scope-start, loop and return stacks are left as
\* they were.
C21_FalseConditionSkipsBlock ==
    (ConditionFalse /\ At(ast_tokens, last.at + 1).t_type = "Block")
        => /\ inst_ptr = MatchingBlockEnd(last.at + 1) + 1
           /\ inst_ptr = last.at + At(ast_tokens, last.at + 1).body_extent.at + 2
           /\ mem_scope_start_stack = last.pre.mem_scope_start_stack
           /\ loop_stack = last.pre.loop_stack
           /\ return_stack = last.pre.return_stack

\* a While inside a subroutine call found false and skipped its body; in the
\* same way SkipEmptyBody skips an empty body and SkipNestedBody a body with
\* two nested blocks
C21_Witness ==
    /\ ConditionFalse
    /\ \/ tokens = SkipInsideCall /\ last.kind = "While" /\ Len(return_stack) = 1
       \/ tokens = SkipEmptyBody /\ last.kind = "If"
              /\ MatchingBlockEnd(last.at + 1) = last.at + 2
       \/ tokens = SkipNestedBody /\ Cardinality(BlocksInside(last.at + 1)) = 2

\* C22: every execution of BlockEnd changes the instruction pointer: to the
\* index of the While that opened the block it closes, or else to the
\* BlockEnd's own index plus 1; also for a bare `{ ... }` block that is the
\* first statement of the program.
C22_BlockEndMoves ==
    (Stepped("BlockEnd") /\ last.matched)
        => /\ inst_ptr # last.at
           /\ inst_ptr = IF /\ last.ref.inst_ptr > 0
                            /\ At(ast_tokens, last.ref.inst_ptr - 1).t_type = "While"
                         THEN last.ref.inst_ptr - 1
                         ELSE last.at + 1

BlocksOfAst == {b \in 0 .. Len(ast_tokens) - 1 : At(ast_tokens, b).t_type = "Block"}
BlockEndsOfAst == {j \in 0 .. Len(ast_tokens) - 1 : At(ast_tokens, j).t_type = "BlockEnd"}

\* the Block at index b carries a body_extent that leads to a BlockEnd, and
\* that BlockEnd is the one that balances it
ClosedBlock(b) ==
    /\ At(ast_tokens, b).body_extent.some
    /\ b + At(ast_tokens, b).body_extent.at < Len(ast_tokens)
    /\ At(ast_tokens, b + At(ast_tokens, b).body_extent.at).t_type = "BlockEnd"
    /\ MatchingBlockEnd(b) = b + At(ast_tokens, b).body_extent.at

RECURSIVE WellFormedValue(_)
WellFormedValue(v) ==
    /\ v.kind = "Expression" => Len(v.values) = Len(v.operators) + 1
    /\ v.kind \in {"Expression", "Array"} =>
           \A k \in 1 .. Len(v.values) : WellFormedValue(v.values[k])

\* the number of integer literals inside the value v
RECURSIVE IntegerLeaves(_)
RECURSIVE IntegerLeavesOf(_, _)
IntegerLeaves(v) ==
    IF v.kind = "IntegerLiteral" THEN 1
    ELSE IF v.kind \in {"Expression", "Array"} THEN IntegerLeavesOf(v.values, 1)
    ELSE 0
IntegerLeavesOf(values, k) ==
    IF k > Len(values) THEN 0
    ELSE IntegerLeaves(values[k]) + IntegerLeavesOf(values, k + 1)

ArgumentLeaves(a) == IF a.some THEN IntegerLeaves(a.v) ELSE 0
ArgumentWellFormed(a) == a.some => WellFormedValue(a.v)

\* the number of integer literals in the arguments of the instructions from
\* index i on
RECURSIVE LeavesFrom(_)
LeavesFrom(i) ==
    IF i >= Len(astgen.generated_ast) THEN 0
    ELSE ArgumentLeaves(At(astgen.generated_ast, i).arg1)
         + ArgumentLeaves(At(astgen.generated_ast, i).arg2) + LeavesFrom(i + 1)

\* C24: every Expression the parser produces for a token run it accepts has
\* len(values) = len(operators) + 1, and no operand of an accepted statement
\* is dropped: every integer literal of the source is an operand of some
\* instruction.
C24_ValuesOneMoreThanOperators ==
    ParsedOk
        => /\ \A i \in 0 .. Len(astgen.generated_ast) - 1 :
                  /\ ArgumentWellFormed(At(astgen.generated_ast, i).arg1)
                  /\ ArgumentWellFormed(At(astgen.generated_ast, i).arg2)
           /\ LeavesFrom(0) = Cardinality(TokenPositions("IntegerLiteral"))

\* the position of the `: L` token
LabelTokenOf(L) == CHOOSE k \in TokenPositions("Label") : tokens[k + 1].name = L

\* the index of the Label instruction emitted for `: L`
LabelIdx(L) == InstOfToken(LabelTokenOf(L), "Label")

\* the positions of the `jump` tokens before and after `: L` that name L
JumpsTo(L) == {k \in TokenPositions("Jump") : tokens[k + 1].name = L}
JumpsBefore(L) == {k \in JumpsTo(L) : k < LabelTokenOf(L)}
JumpsAfter(L) == {k \in JumpsTo(L) : k > LabelTokenOf(L)}

\* C25: after a successful parse every Jump made from `jump L` carries the
\* index of L's Label instruction as its target, however many jumps name L
\* and whether they stand before or after `: L`.
C25_JumpTargets ==
    ParsedOk
        => \A k \in TokenPositions("Jump") :
               At(astgen.generated_ast, InstOfToken(k, "Jump")).target
                   = SomeIdx(LabelIdx(tokens[k + 1].name))

\* parsed: two jumps before `: L` and one after it, all three resolved, and a
\* jump to a second label
C25_Witness ==
    /\ ParsedOk /\ tokens = JumpsAroundLabel
    /\ Cardinality(JumpsBefore("L")) = 2 /\ Cardinality(JumpsAfter("L")) = 1
    /\ \A k \in JumpsTo("L") :
           At(astgen.generated_ast, InstOfToken(k, "Jump")).target = SomeIdx(4)
    /\ At(astgen.generated_ast, 4).t_type = "Label"
    /\ LabelIdx("M") = 7

\* the Blocks that open a subroutine body: those right after a SubroutineDefine
BodyBlocks ==
    {b \in 1 .. Len(astgen.generated_ast) - 1 :
        /\ At(astgen.generated_ast, b).t_type = "Block"
        /\ At(astgen.generated_ast, b - 1).t_type = "SubroutineDefine"}

\* the index of the BlockEnd that closes the body opened at b
BodyEnd(b) == b + At(astgen.generated_ast, b).body_extent.at

\* C26: in the parser's output the instruction right before the BlockEnd
\* that closes a subroutine body is a SubroutineReturn, whether the body is
\* empty, ends in an explicit `ret` or ends in a nested block.
C26_BodyEndsInReturn ==
    ParsedOk
        => \A b \in BodyBlocks :
               At(astgen.generated_ast, b).body_extent.some
                   => /\ At(astgen.generated_ast, BodyEnd(b)).t_type = "BlockEnd"
                      /\ At(astgen.generated_ast, BodyEnd(b) - 1).t_type
                             = "SubroutineReturn"

\* parsed: a body that ends in a nested block and has the return added after
\* that block's BlockEnd; in CallBeforeAndAfter an empty body holding only
\* the added return and a body whose own `ret 1` is its only return
C26_Witness ==
    /\ ParsedOk
    /\ tokens \in {CallWithOpenBlocks, CallBeforeAndAfter}
    /\ \A b \in BodyBlocks : At(astgen.generated_ast, b).body_extent.some
    /\ tokens = CallWithOpenBlocks
           => \E b \in BodyBlocks :
                  /\ At(astgen.generated_ast, BodyEnd(b) - 2).t_type = "BlockEnd"
                  /\ At(astgen.generated_ast, BodyEnd(b) - 1).arg1
                         = SomeValue(BoolLiteral(FALSE))
    /\ tokens = CallBeforeAndAfter
           => /\ \E b \in BodyBlocks : BodyEnd(b) = b + 2
              /\ \E b \in BodyBlocks :
                     /\ BodyEnd(b) = b + 2
                     /\ At(astgen.generated_ast, b + 1).arg1
                            = SomeValue(IntegerLiteral(1))

\* an Integer or a String was compared with a Bool by Equals or NotEquals
TruthinessComparison ==
    /\ eval.done
    /\ eval.first.value.tag \in {"Integer", "String"}
    /\ eval.second.value.tag = "Bool"
    /\ eval.operator \in {"Equals", "NotEquals"}

\* (i != 0) for an Integer, (s is non-empty) for a String
Truthy(v) == IF v.tag = "Integer" THEN v.i # 0 ELSE Len(v.s) # 0

\* C27: Integer x Bool Equals returns (i != 0) == b and NotEquals returns
\* (i != 0) != b; String x Bool Equals returns (s is non-empty) == b and
\* NotEquals returns (s is non-empty) != b.
C27_TruthinessComparisons ==
    TruthinessComparison
        => /\ eval.ok
           /\ eval.result.value
                  = TBool(IF eval.operator = "Equals"
                          THEN Truthy(eval.first.value) = eval.second.value.b
                          ELSE Truthy(eval.first.value) # eval.second.value.b)

\* `2 == true` was evaluated to true; likewise `"" != false` to false
C27_Witness ==
    /\ TruthinessComparison /\ pc = "operated" /\ eval.ok
    /\ \/ /\ eval.first.value = TInteger(2) /\ eval.second.value = TBool(TRUE)
          /\ eval.operator = "Equals" /\ eval.result.value = TBool(TRUE)
       \/ /\ eval.first.value = TString(<<>>) /\ eval.second.value = TBool(FALSE)
          /\ eval.operator = "NotEquals" /\ eval.result.value = TBool(FALSE)

\* Add was applied to an array read from variable `a` and an Integer, Bool or
\* String
ArrayAdd ==
    /\ eval.done /\ eval.operator = "Add"
    /\ eval.first.value.tag = "Array" /\ eval.first.addr = SomeAddr(1)
    /\ eval.second.value.tag \in {"Integer", "Bool", "String"}

\* C28: Add with an array read from a variable on the left and an Integer,
\* Bool or String on the right returns a new array, the old one with the
\* right operand appended as its last element, and leaves the variable's
\* store cell and every other cell unchanged.
C28_ArrayAddIsNonMutating ==
    ArrayAdd
        => /\ eval.ok
           /\ eval.result.value = TArray(Append(eval.first.value.a, eval.second.value))
           /\ memory_cells = <<TInteger(7), eval.first.value>>

\* [1, 2] read from variable `a` plus the string "ab" gave [1, 2, "ab"], with
\* [1, 2] still in the cell of `a`
C28_Witness ==
    /\ ArrayAdd /\ pc = "operated"
    /\ eval.first.value = TArray(<<TInteger(1), TInteger(2)>>)
    /\ eval.second.value = TString(<<"a", "b">>)
    /\ eval.result.value = TArray(<<TInteger(1), TInteger(2), TString(<<"a", "b">>)>>)
    /\ memory_cells[2] = TArray(<<TInteger(1), TInteger(2)>>)

\* the programs whose while body allocates t on every iteration
LoopAllocPrograms == {CountingLoop, LoopAllocOnEmptyStore}

\* the most recent step was the BlockEnd that closes the body of a While
ClosedLoopBody ==
    /\ Stepped("BlockEnd") /\ last.matched
    /\ last.ref.inst_ptr > 0
    /\ At(ast_tokens, last.ref.inst_ptr - 1).t_type = "While"

\* C29: an `alloc NAME` inside a while body succeeds on every iteration: the
\* BlockEnd of the body removes the bindings the iteration made before the
\* condition is evaluated again, so the alloc of the next iteration does not
\* abort as a duplicate, and NAME is unbound after the loop.
C29_AllocInLoopBody ==
    /\ ClosedLoopBody => DOMAIN variable_map = DOMAIN last.ref.variable_map
    /\ tokens \in LoopAllocPrograms
           => /\ (last.kind = "Alloc" /\ last.pre.inst_ptr > 1) => last.ok
              /\ Executing("While") => "t" \notin DOMAIN variable_map
              /\ pc = "halted" => "t" \notin DOMAIN variable_map

\* the store addresses the name map refers to
BoundAddresses == {variable_map[n] : n \in DOMAIN variable_map}

\* the interpreter exists: the program has been parsed (or was handed over
\* as an instruction array)
Interpreting == pc \in {"run", "halted", "panic", "hang"}

\* C30: in every reachable state the name map is a bijection between the
\* bound names and the store addresses: every mapped address is below the
\* store length, no two names share an address, and the store length equals
\* the number of bound names.
C30_NameMapIsBijection ==
    Interpreting
        => /\ \A n \in DOMAIN variable_map : variable_map[n] < Len(memory_cells)
           /\ \A n, m \in DOMAIN variable_map :
                  variable_map[n] = variable_map[m] => n = m
           /\ Len(memory_cells) = Cardinality(DOMAIN variable_map)

\* C31: after a SubroutineReturn has resumed the caller, the loop stack has
\* the contents it had right before the SubroutineCall: the entries pushed by
\* the blocks entered inside the callee are gone, so the BlockEnd of the
\* block around the call pops that block's own opening index.
C31_LoopStackRestored ==
    /\ (Stepped("SubroutineReturn") /\ last.matched)
           => loop_stack = last.ref.loop_stack
    /\ (Stepped("BlockEnd") /\ last.matched)
           => Last(last.pre.loop_stack) = last.ref.inst_ptr

\* the blocks entered and not yet exited, and the calls that have not returned
OpenBlocks == Len(open_log)
ActiveCalls == Len(call_log)

\* C32: in every reachable state the depth of the scope-start stack is
\* 1 + (blocks entered and not yet exited) + (active subroutine calls); so
\* the depth is the same at every visit to the head of a loop and does not
\* grow with iterations or completed calls.
C32_ScopeStackDepth ==
    Interpreting
        => Len(mem_scope_start_stack) = 1 + OpenBlocks + ActiveCalls

\* the most recent step was a completed `ret v` with v a variable
ReturnedVariable ==
    /\ Stepped("SubroutineReturn") /\ last.matched
    /\ last_inst.arg1.some /\ last_inst.arg1.v.kind = "Variable"

\* the programs whose subroutines run on a non-empty store
ReturnPrograms == {CallWithOpenBlocks, NestedCalls, RetVariableFromBlock, SkipInsideCall}

\* C33: SubroutineReturn resolves its return expression before it invalidates
\* any scope: the value stored by a completed return is the value the
\* expression has in the state in which the `ret` executes; for `ret v` with
\* v allocated inside the subroutine, or inside a nested block still open at
\* the `ret`, it is the content of v's cell, and it is still the stored value
\* once v's cell has been unwound.
C33_ReturnResolvesFirst ==
    /\ (Stepped("SubroutineReturn") /\ last.matched)
           => return_value =
                  SomeType(resolve_argument_value(last_inst.arg1.v, last.pre.variable_map,
                               last.pre.return_value, overflow_checks,
                               last.pre.memory_cells).w.value)
    /\ ReturnedVariable
           => /\ last_inst.arg1.v.name \in DOMAIN last.pre.variable_map
              /\ return_value =
                     SomeType(At(last.pre.memory_cells,
                                 last.pre.variable_map[last_inst.arg1.v.name]))
    /\ (tokens \in ReturnPrograms /\ last.kind = "SubroutineReturn") => last.ok
    /\ (tokens = RetVariableFromBlock /\ pc = "halted") => output = <<TInteger(7)>>

\* `ret v` has returned 7 from the block in which v was allocated, and v's
\* cell is gone
C33_Witness ==
    /\ ReturnedVariable /\ tokens = RetVariableFromBlock
    /\ return_value = SomeType(TInteger(7))
    /\ "v" \notin DOMAIN variable_map
    /\ Len(memory_cells) = 1
    /\ Len(last.pre.memory_cells) = 2

\* the names that snapshot p binds to a cell of its store
BoundIn(p) == {n \in DOMAIN p.variable_map : p.variable_map[n] < Len(p.memory_cells)}

\* every name bound before the scope was entered (snapshot p) is still bound
\* to the same cell, and the cell holds what it held right before this step
OuterCellsKept(p) ==
    \A n \in BoundIn(p) :
        /\ n \in DOMAIN variable_map
        /\ variable_map[n] = p.variable_map[n]
        /\ variable_map[n] < Len(memory_cells)
        /\ At(memory_cells, variable_map[n]) = At(last.pre.memory_cells, variable_map[n])

\* the most recent step was a Set (or compound assignment) on a name that an
\* enclosing scope or the caller had bound
SetOfOuterName ==
    /\ Stepped("Set")
    /\ Len(open_log) > 0
    /\ last_inst.arg1.v.name \in BoundIn(open_log[1].pre)
    /\ last_inst.arg1.v.name \in BoundIn(last.pre)

\* C34: a Set or compound assignment executed inside a nested block or a
\* called subroutine on a name bound by an enclosing scope or by the caller
\* overwrites that name's existing cell, and the new value is still the
\* name's value after the block's BlockEnd or the subroutine's return.
C34_OuterWritesPersist ==
    /\ SetOfOuterName
           => /\ variable_map = last.pre.variable_map
              /\ Len(memory_cells) = Len(last.pre.memory_cells)
              /\ At(memory_cells, variable_map[last_inst.arg1.v.name]) = last.val
    /\ (Stepped("BlockEnd") /\ last.matched) => OuterCellsKept(last.ref)
    /\ (Stepped("SubroutineReturn") /\ last.matched) => OuterCellsKept(last.ref)
    /\ (tokens = NestedBlocks /\ pc = "halted") => output = <<TInteger(3)>>
    /\ (tokens = SetInSubroutine /\ pc = "halted") => output = <<TInteger(6)>>

\* the subroutine has returned and the caller's a holds the 6 written inside
\* the block inside the subroutine
C34_Witness ==
    /\ tokens = SetInSubroutine
    /\ Stepped("SubroutineReturn") /\ last.matched
    /\ At(last.ref.memory_cells, last.ref.variable_map["a"]) = TInteger(1)
    /\ At(memory_cells, variable_map["a"]) = TInteger(6)
    /\ DOMAIN variable_map = {"a"}

\* the instruction array holds no While, no SubroutineCall and no Jump whose
\* target is at or before the Jump itself
LoopFree ==
    /\ pc # "parse"
    /\ \A i \in 0 .. Len(ast_tokens) - 1 :
           /\ At(ast_tokens, i).t_type \notin {"While", "SubroutineCall"}
           /\ (At(ast_tokens, i).t_type = "Jump" /\ At(ast_tokens, i).target.some)
                  => At(ast_tokens, i).target.at > i

\* a step of a running interpreter that neither halts nor aborts
PlainStep == pc = "run" /\ pc' = "run"

\* C35: a program with no While, no SubroutineCall and no backward Jump
\* always terminates: every step that neither halts nor aborts strictly
\* increases the instruction pointer, so the run reaches EOF or a fatal
\* error.
C35_LoopFreeTerminates ==
    /\ [][(LoopFree /\ PlainStep) => inst_ptr' > inst_ptr]_vars
    /\ (LoopFree /\ pc = "run") ~> (pc \in {"halted", "panic"})

\* the argument a of the most recent instruction is `v|k|.pop` or
\* `v|k|.popfront` with v a variable and k an integer literal
IsInnerPop(a) ==
    /\ a.kind = "Expression"
    /\ a.operators \in {<<"PopAccess">>, <<"PopFrontAccess">>}
    /\ a.values[1].kind = "Expression"
    /\ a.values[1].operators = <<"ArrayAccess">>
    /\ a.values[1].values[1].kind = "Variable"
    /\ a.values[1].values[2].kind = "IntegerLiteral"

\* the most recent step printed the element popped from an inner element
PoppedInner ==
    /\ Stepped("DebugPrintCall")
    /\ last_inst.arg1.some
    /\ IsInnerPop(last_inst.arg1.v)

\* the array w with one element removed from its element at index k
WithoutOne(w, k, operator) ==
    TArray([w.a EXCEPT ![k + 1] =
                IF operator = "PopAccess" THEN TArray(Front(@.a)) ELSE TArray(Tail1(@.a))])

IntegerArithmetic ==
    /\ eval.done /\ eval.operator \in {"Add", "Sub"}
    /\ eval.first.value.tag = "Integer" /\ eval.second.value.tag = "Integer"

\* the exact result of the operation lies outside 0 .. 2^32 - 1
OutOfRange ==
    IF eval.operator = "Add"
    THEN eval.first.value.i + eval.second.value.i >= U32Modulus
    ELSE eval.first.value.i < eval.second.value.i

\* C37: Integer values stay within 0 .. 2^32 - 1 and never wrap: a Sub with
\* left < right, or an Add whose sum exceeds 2^32 - 1, aborts the run instead
\* of producing a wrapped or negative value.
C37_IntegersNeverWrap ==
    IntegerArithmetic
        => /\ eval.ok => InU32(eval.result.value.i)
           /\ OutOfRange => ~eval.ok
           /\ ~OutOfRange
                  => /\ eval.ok
                     /\ eval.result.value
                            = TInteger(IF eval.operator = "Add"
                                       THEN eval.first.value.i + eval.second.value.i
                                       ELSE eval.first.value.i - eval.second.value.i)

\* the value `print` shows for the expression e in the interpreter the last
\* step started from: the left-to-right fold of all of its operators
PrintedValue(e) ==
    resolve_argument_value(statement_argument(e).v, last.pre.variable_map,
                           last.pre.return_value, overflow_checks,
                           last.pre.memory_cells)

\* the most recent step executed the condition instruction (index 3) of a
\* program with a condition of more than one operator
WholeConditionAttempted(kind) ==
    pc \in {"run", "halted", "panic"} /\ last.kind = kind /\ last.at = 3

\* C38: an `if` or `while` whose condition is written with more than one
\* operator (a + 1 == b) is decided by the left-to-right fold of the whole
\* condition: the step is fatal exactly when printing the expression is, and
\* the body is entered exactly when the printed value is true.
C38_WholeConditionDecides ==
    \A kind \in ConditionKinds, e \in MultiOperatorExpressions :
        (tokens = MultiOperatorCondition(kind, e) /\ WholeConditionAttempted(kind))
            => /\ last.ok = PrintedValue(e).ok
               /\ last.ok => last.taken = (PrintedValue(e).w.value = TBool(TRUE))

====
